---- MODULE Spec2Model ----
(***************************************************************************)
(* ST-Grouping: the prompt-entry Group Record Store                        *)
(* (src/lib/prompt-entry-grouping.js) and the parts of the prompt-entry    *)
(* UI engine (src/unnamed/part_000, lines 1637-2625) that read it: anchor  *)
(* resolution, the unresolved count of a reconciliation pass and the       *)
(* two-mark group creation flow.                                           *)
(*                                                                         *)
(* Encoding of JavaScript values.  A stored group entry is a record with   *)
(* one field per property the code reads.  A property that is absent (or   *)
(* not of the type the code tests for) holds NoStr / NoNum / NoId; a name, *)
(* groupName or mode that is absent or empty is "" (the code only tests    *)
(* their truthiness).  Identifiers of groups are numbers standing for the  *)
(* id strings; createGroupId draws them from a counter.                    *)
(***************************************************************************)
EXTENDS Integers, Sequences, FiniteSets, TLC

VARIABLES
    orderedIdentifiers,  \* the host's live list: data-pm-identifier of each entry, in order
    presetObj,           \* the preset object the host's preset manager returns
    settings,            \* the host's live settings object (getPresetList().settings)
    selected,            \* getSelectedPresetName() === presetName
    nextId,              \* number of ids createGroupId has produced
    tempMarks,           \* the pending mark buffer {start, end}
    menu,                \* the open grouping menu and what its closures captured
    dialog,              \* the open name dialog and what its callback captured
    last,                \* the last operation: its arguments and its result
    worldbook,           \* extensionSettings.worldinfo_groups.worldbooks[worldName]
    worldNextId,         \* number of ids generateId has produced
    \* module state of the prompt-entry UI engine (src/unnamed/part_000:1646-1687)
    entryGroupingEnabled,
    listObserver,                  \* TRUE: holds a MutationObserver; FALSE: null
    observedListNode,              \* the node observed, or NoNode
    panelObserver,
    observedPanelNode,             \* TRUE: document.body; FALSE: null
    themeObserver,
    settingsUpdatedUnsubscribe,    \* TRUE: holds the unsubscribe function
    promptManagerHookInstalled,
    applyGroupingTimer,            \* TRUE: holds a timer id; FALSE: null
    isApplyingGrouping,
    applyGroupingQueued,
    lastAppliedGroupingSignature,
    lastAppliedGroupingPreset,
    lastAppliedGroupingListNode,
    zeroResolvedRetryPreset,
    zeroResolvedRetryCount,
    themeRefreshTimeouts,          \* TRUE: the array holds timer ids
    \* the closure of bindTripleClickEvents whose handlers are bound (2345-2347)
    clickCount,
    clickTimer,                    \* TRUE: its timer is pending
    lastClickedIndex,
    \* the toggle-all button of a group header and the entries it captured
    \* (src/lib/prompt-entry-grouping.js:405-498)
    toggleAll,
    \* the world-info editor: the module state currentWorldName,
    \* currentWorldData and isRefreshing (src/unnamed/part_000:365-367), the
    \* world-books it works on, its pending loads and timers, and its view
    editor,
    \* the page and the browser's event loop, as far as the engine touches them
    listNode,            \* the list container element the page holds, or NoNode
    groupingUi,          \* the group indices that have a header and a wrapper in the list
    timers,              \* the pending timers, by what their callback does
    microtasks,          \* the microtask queue
    records,             \* the mutation records queued for the list and the panel observer
    registered,          \* how many observers, handlers and hooks of each kind are active
    timersCounted,       \* TRUE: timers holds the number pending of every kind
    lastPass             \* what the last reconciliation pass saw and did

\* the state of the world-info group store
worldVars == <<worldbook, worldNextId>>

\* the module state of the prompt-entry UI engine and the page it works on
passVars ==
    <<entryGroupingEnabled, listObserver, observedListNode, panelObserver, observedPanelNode,
      themeObserver, settingsUpdatedUnsubscribe, promptManagerHookInstalled, applyGroupingTimer,
      isApplyingGrouping, applyGroupingQueued, lastAppliedGroupingSignature,
      lastAppliedGroupingPreset, lastAppliedGroupingListNode, zeroResolvedRetryPreset,
      zeroResolvedRetryCount, themeRefreshTimeouts, clickCount, clickTimer, lastClickedIndex,
      listNode, groupingUi, timers, microtasks, records, registered, timersCounted, lastPass>>

\* the state of the prompt-entry UI engine
engineVars == <<passVars, toggleAll, editor>>

\* the state of the prompt-entry group store and of the marking flow
promptVars == <<orderedIdentifiers, presetObj, settings, selected, nextId, tempMarks, menu, dialog>>

vars == <<orderedIdentifiers, presetObj, settings, selected, nextId, tempMarks, menu, dialog, last,
          worldVars, engineVars>>

----------------------------------------------------------------------------
(* Bounds of the model. *)

\* a stored groupOrder of a world-book has at most this many ids
MaxStoredOrder == 3
\* createGroup is explored while generateId has produced fewer ids than this
MaxCreated == 1
\* add is explored while the stored list is shorter than this
MaxGroups == 2
\* operations are explored while createGroupId has produced fewer ids than this
MaxFresh == 2

----------------------------------------------------------------------------
(* Values. *)

\* a property that is not a string (absent, undefined, null, a number)
NoStr == "<not-a-string>"
\* a property that is not a number
NoNum == -99
\* an id that is not a string
NoId == 0
\* ids made by createGroupId are GeneratedIdBase + 1, + 2, ...
GeneratedIdBase == 10

DEFAULT_GROUP_NAME == "DEFAULT_GROUP_NAME"
DEFAULT_MODE == "inclusive"

\* the host's entries, in the host's own order
HostOrder == <<"p1", "p2", "p3", "p4">>
Identifiers == {HostOrder[i] : i \in 1..Len(HostOrder)}

\* an entry of the stored entryGrouping array with no property set
Blank ==
    [plain |-> TRUE, id |-> NoId, name |-> "", groupName |-> "", mode |-> "",
     startIdentifier |-> NoStr, endIdentifier |-> NoStr,
     startIndex |-> NoNum, endIndex |-> NoNum,
     unresolved |-> FALSE, legacyStartIndex |-> NoNum, legacyEndIndex |-> NoNum]

----------------------------------------------------------------------------
(* src/lib/prompt-entry-grouping.js: helpers. *)

createGroupId(n) == GeneratedIdBase + n + 1

isPlainObject(entry) == entry.plain

readGroupName(entry) ==
    IF entry.name # "" THEN entry.name
    ELSE IF entry.groupName # "" THEN entry.groupName
    ELSE DEFAULT_GROUP_NAME

isLegacyIndexGrouping(entry) == entry.startIndex # NoNum /\ entry.endIndex # NoNum

isIdentifierAnchorGrouping(entry) ==
    entry.startIdentifier # NoStr \/ entry.endIdentifier # NoStr

\* a faulty variant of ElementAt that counts positions from 1
ElementAt_OneBased(ids, i) == IF i >= 1 /\ i <= Len(ids) THEN ids[i] ELSE NoStr

\* orderedIdentifiers[i] of a JavaScript array (0-based; undefined out of range)
ElementAt(ids, i) == IF i >= 0 /\ i < Len(ids) THEN ids[i + 1] ELSE NoStr

\* entry.mode || DEFAULT_MODE
ModeOf(entry) == IF entry.mode # "" THEN entry.mode ELSE DEFAULT_MODE

\* typeof entry.id === 'string' ? entry.id : createGroupId()
IdOf(entry, n) == IF entry.id # NoId THEN entry.id ELSE createGroupId(n)

\* the record literal both normalizers return for a resolved group
ResolvedRecord(entry, n, startIdentifier, endIdentifier) ==
    [Blank EXCEPT !.id = IdOf(entry, n), !.name = readGroupName(entry),
                  !.startIdentifier = startIdentifier, !.endIdentifier = endIdentifier,
                  !.mode = ModeOf(entry)]

\* the record literal both normalizers return for an unresolved group
UnresolvedRecord(entry, n, legacyStartIndex, legacyEndIndex) ==
    [Blank EXCEPT !.id = IdOf(entry, n), !.name = readGroupName(entry),
                  !.mode = ModeOf(entry), !.unresolved = TRUE,
                  !.legacyStartIndex = legacyStartIndex, !.legacyEndIndex = legacyEndIndex]

\* normalizeForRead: <<record>>, or <<>> where the code returns null.
\* n is the number of ids createGroupId has produced so far.
normalizeForRead(entry, ids, n) ==
    IF ~isPlainObject(entry) THEN <<>>
    ELSE IF isLegacyIndexGrouping(entry) THEN
        LET startIdentifier == ElementAt(ids, entry.startIndex)
            endIdentifier == ElementAt(ids, entry.endIndex)
        IN  IF startIdentifier # NoStr /\ endIdentifier # NoStr
            THEN <<ResolvedRecord(entry, n, startIdentifier, endIdentifier)>>
            ELSE <<UnresolvedRecord(entry, n, entry.startIndex, entry.endIndex)>>
    ELSE IF isIdentifierAnchorGrouping(entry) THEN
        \* startIdentifier && endIdentifier: both strings and both non-empty
        IF /\ entry.startIdentifier # NoStr /\ entry.startIdentifier # ""
           /\ entry.endIdentifier # NoStr /\ entry.endIdentifier # ""
        THEN <<ResolvedRecord(entry, n, entry.startIdentifier, entry.endIdentifier)>>
        ELSE <<UnresolvedRecord(entry, n, entry.legacyStartIndex, entry.legacyEndIndex)>>
    ELSE <<>>

\* a faulty variant of normalizeForWrite that gives every anchor-based record
\* a new id
normalizeForWrite_NewId(entry, ids, n) ==
    IF ~isPlainObject(entry) THEN <<>>
    ELSE IF isIdentifierAnchorGrouping(entry) THEN
        <<[Blank EXCEPT !.id = createGroupId(n), !.name = readGroupName(entry),
                        !.mode = ModeOf(entry),
                        !.startIdentifier = entry.startIdentifier,
                        !.endIdentifier = entry.endIdentifier,
                        !.unresolved = entry.unresolved,
                        !.legacyStartIndex = entry.legacyStartIndex,
                        !.legacyEndIndex = entry.legacyEndIndex]>>
    ELSE IF isLegacyIndexGrouping(entry) THEN
        LET startIdentifier == ElementAt(ids, entry.startIndex)
            endIdentifier == ElementAt(ids, entry.endIndex)
        IN  IF startIdentifier # NoStr /\ endIdentifier # NoStr
            THEN <<ResolvedRecord(entry, n, startIdentifier, endIdentifier)>>
            ELSE <<UnresolvedRecord(entry, n, entry.startIndex, entry.endIndex)>>
    ELSE <<>>

\* normalizeForWrite: <<record>>, or <<>> where the code returns null
normalizeForWrite(entry, ids, n) ==
    IF ~isPlainObject(entry) THEN <<>>
    ELSE IF isIdentifierAnchorGrouping(entry) THEN
        <<[Blank EXCEPT !.id = IdOf(entry, n), !.name = readGroupName(entry),
                        !.mode = ModeOf(entry),
                        !.startIdentifier = entry.startIdentifier,
                        !.endIdentifier = entry.endIdentifier,
                        !.unresolved = entry.unresolved,
                        !.legacyStartIndex = entry.legacyStartIndex,
                        !.legacyEndIndex = entry.legacyEndIndex]>>
    ELSE IF isLegacyIndexGrouping(entry) THEN
        LET startIdentifier == ElementAt(ids, entry.startIndex)
            endIdentifier == ElementAt(ids, entry.endIndex)
        IN  IF startIdentifier # NoStr /\ endIdentifier # NoStr
            THEN <<ResolvedRecord(entry, n, startIdentifier, endIdentifier)>>
            ELSE <<UnresolvedRecord(entry, n, entry.startIndex, entry.endIndex)>>
    ELSE <<>>

\* whether normalizing the entry calls createGroupId
DrawsId(entry) ==
    /\ isPlainObject(entry)
    /\ isLegacyIndexGrouping(entry) \/ isIdentifierAnchorGrouping(entry)
    /\ entry.id = NoId

\* the number of createGroupId calls made while normalizing a list
RECURSIVE IdsDrawn(_)
IdsDrawn(raw) ==
    IF raw = <<>> THEN 0
    ELSE (IF DrawsId(Head(raw)) THEN 1 ELSE 0) + IdsDrawn(Tail(raw))

\* asArray(rawGroupings).map(normalizeForWrite).filter(Boolean)
RECURSIVE getWritableGroupings(_, _, _)
getWritableGroupings(raw, ids, n) ==
    IF raw = <<>> THEN <<>>
    ELSE normalizeForWrite(Head(raw), ids, n)
         \o getWritableGroupings(Tail(raw), ids, n + (IF DrawsId(Head(raw)) THEN 1 ELSE 0))

\* asArray(grouping).map(normalizeForRead).filter(Boolean)
RECURSIVE ReadList(_, _, _)
ReadList(raw, ids, n) ==
    IF raw = <<>> THEN <<>>
    ELSE normalizeForRead(Head(raw), ids, n)
         \o ReadList(Tail(raw), ids, n + (IF DrawsId(Head(raw)) THEN 1 ELSE 0))

\* getAllPresetGroupings on a preset object
getAllPresetGroupings(preset, ids, n) ==
    IF ~preset.hasExtensions \/ ~preset.hasEntryGrouping THEN <<>>
    ELSE ReadList(preset.entryGrouping, ids, n)

----------------------------------------------------------------------------
(* src/lib/prompt-entry-grouping.js: the mutating operations.              *)
(* Each is an operator from the state before the call to the state after   *)
(* it and the call's outcome.  `host` is what the host does during the     *)
(* call: "ok"; "unavailable" (getCurrentApiInfo gives no preset manager,   *)
(* or getCompletionPresetByName gives no preset: both end the call before  *)
(* anything is read); "saveRejects" (savePreset rejects).                  *)

HostBehaviours == {"ok", "unavailable", "saveRejects"}

\* presetObj.extensions.entryGrouping as asArray sees it
RawGroupings(preset) ==
    IF preset.hasExtensions /\ preset.hasEntryGrouping THEN preset.entryGrouping ELSE <<>>

\* if (!presetObj.extensions) presetObj.extensions = {}
EnsureExtensions(preset) == [preset EXCEPT !.hasExtensions = TRUE]

\* presetObj.extensions.entryGrouping = groupings
SetEntryGrouping(preset, groupings) ==
    [hasExtensions |-> TRUE, hasEntryGrouping |-> TRUE, entryGrouping |-> groupings]

\* a faulty variant of syncEntryGroupingToActiveSettings that does not compare
\* the selected preset's name with the preset written
syncEntryGroupingToActiveSettings_AnyPreset(sett, isSelected, groupings) ==
    IF ~sett.plain THEN sett
    ELSE [sett EXCEPT !.hasExtensions = TRUE, !.hasEntryGrouping = TRUE,
                      !.entryGrouping = groupings]

syncEntryGroupingToActiveSettings(sett, isSelected, groupings) ==
    IF ~isSelected \/ ~sett.plain THEN sett
    ELSE [sett EXCEPT !.hasExtensions = TRUE, !.hasEntryGrouping = TRUE,
                      !.entryGrouping = groupings]

\* the outcome of a call that changed nothing and returned false
Failed(preset, sett, n) ==
    [presetObj |-> preset, settings |-> sett, nextId |-> n,
     ok |-> FALSE, saves |-> 0, skipUpdate |-> FALSE]

\* the outcome of a call that reached savePreset
Saved(preset, sett, isSelected, groupings, n, host) ==
    [presetObj |-> SetEntryGrouping(preset, groupings),
     settings |-> syncEntryGroupingToActiveSettings(sett, isSelected, groupings),
     nextId |-> n, ok |-> (host = "ok"), saves |-> 1, skipUpdate |-> TRUE]

\* a faulty variant of addPresetGrouping that validates the start anchor only
addPresetGrouping_StartOnly(preset, sett, isSelected, n, startIdentifier, endIdentifier, groupName, ids, host) ==
    IF startIdentifier = NoStr THEN Failed(preset, sett, n)
    ELSE IF host = "unavailable" THEN Failed(preset, sett, n)
    ELSE
        LET raw == RawGroupings(preset)
            m == n + IdsDrawn(raw)
            groupings ==
                Append(getWritableGroupings(raw, ids, n),
                       [Blank EXCEPT !.id = createGroupId(m),
                                     !.name = IF groupName # "" THEN groupName
                                              ELSE DEFAULT_GROUP_NAME,
                                     !.startIdentifier = startIdentifier,
                                     !.endIdentifier = endIdentifier,
                                     !.mode = DEFAULT_MODE])
        IN  Saved(preset, sett, isSelected, groupings, m + 1, host)

addPresetGrouping(preset, sett, isSelected, n, startIdentifier, endIdentifier, groupName, ids, host) ==
    IF startIdentifier = NoStr \/ endIdentifier = NoStr THEN Failed(preset, sett, n)
    ELSE IF host = "unavailable" THEN Failed(preset, sett, n)
    ELSE
        LET raw == RawGroupings(preset)
            m == n + IdsDrawn(raw)
            groupings ==
                Append(getWritableGroupings(raw, ids, n),
                       [Blank EXCEPT !.id = createGroupId(m),
                                     !.name = IF groupName # "" THEN groupName
                                              ELSE DEFAULT_GROUP_NAME,
                                     !.startIdentifier = startIdentifier,
                                     !.endIdentifier = endIdentifier,
                                     !.mode = DEFAULT_MODE])
        IN  Saved(preset, sett, isSelected, groupings, m + 1, host)

\* a faulty variant of updatePresetGrouping that names the record
\* DEFAULT_GROUP_NAME when no name is given
updatePresetGrouping_NameLost(preset, sett, isSelected, n, groupIndex, startIdentifier, endIdentifier, groupName, ids, host) ==
    IF host = "unavailable" THEN Failed(preset, sett, n)
    ELSE
        LET raw == RawGroupings(preset)
            m == n + IdsDrawn(raw)
            groupings == getWritableGroupings(raw, ids, n)
        IN  IF groupIndex < 0 \/ groupIndex >= Len(groupings)
            THEN Failed(EnsureExtensions(preset), sett, m)
            ELSE
                LET existing == groupings[groupIndex + 1]
                    updated ==
                        [Blank EXCEPT
                            !.id = existing.id,
                            !.name = IF groupName # "" THEN groupName
                                     ELSE DEFAULT_GROUP_NAME,
                            !.startIdentifier = IF startIdentifier # NoStr THEN startIdentifier
                                                ELSE existing.startIdentifier,
                            !.endIdentifier = IF endIdentifier # NoStr THEN endIdentifier
                                              ELSE existing.endIdentifier,
                            !.mode = ModeOf(existing)]
                IN  Saved(preset, sett, isSelected,
                          [groupings EXCEPT ![groupIndex + 1] = updated], m, host)

updatePresetGrouping(preset, sett, isSelected, n, groupIndex, startIdentifier, endIdentifier, groupName, ids, host) ==
    IF host = "unavailable" THEN Failed(preset, sett, n)
    ELSE
        LET raw == RawGroupings(preset)
            m == n + IdsDrawn(raw)
            groupings == getWritableGroupings(raw, ids, n)
        IN  IF groupIndex < 0 \/ groupIndex >= Len(groupings)
            THEN Failed(EnsureExtensions(preset), sett, m)
            ELSE
                LET existing == groupings[groupIndex + 1]
                    updated ==
                        [Blank EXCEPT
                            !.id = existing.id,
                            !.name = IF groupName # "" THEN groupName
                                     ELSE readGroupName(existing),
                            !.startIdentifier = IF startIdentifier # NoStr THEN startIdentifier
                                                ELSE existing.startIdentifier,
                            !.endIdentifier = IF endIdentifier # NoStr THEN endIdentifier
                                              ELSE existing.endIdentifier,
                            !.mode = ModeOf(existing)]
                IN  Saved(preset, sett, isSelected,
                          [groupings EXCEPT ![groupIndex + 1] = updated], m, host)

removePresetGrouping(preset, sett, isSelected, n, groupIndex, ids, host) ==
    IF host = "unavailable" THEN Failed(preset, sett, n)
    ELSE
        LET raw == RawGroupings(preset)
            m == n + IdsDrawn(raw)
            groupings == getWritableGroupings(raw, ids, n)
        IN  IF groupIndex < 0 \/ groupIndex >= Len(groupings)
            THEN Failed(EnsureExtensions(preset), sett, m)
            ELSE
                \* groupings.splice(groupIndex, 1)
                Saved(preset, sett, isSelected,
                      [i \in 1..(Len(groupings) - 1) |->
                          IF i <= groupIndex THEN groupings[i] ELSE groupings[i + 1]],
                      m, host)

----------------------------------------------------------------------------
(* src/unnamed/part_000 (world-info group store, lines 1-330).             *)
(* worldbook is settings.worldbooks[worldName] for one world-book name: its *)
(* groups object as the sequence of its properties in insertion order (the *)
(* order of Object.keys for ids that are UUID strings), and its groupOrder. *)
(* Group ids are numbers standing for the UUID strings.                    *)

\* ids made by generateId are FreshGroupIdBase + 1, + 2, ...
FreshGroupIdBase == 10
generateId(n) == FreshGroupIdBase + n + 1

\* settings.worldbooks[worldName] is undefined
NoBook == [exists |-> FALSE, groups |-> <<>>, hasOrder |-> FALSE, groupOrder |-> <<>>]

\* Object.keys(groups)
GroupKeys(groups) == [i \in 1..Len(groups) |-> groups[i].id]

\* groups[id] is an object
HasGroup(groups, id) == \E i \in 1..Len(groups) : groups[i].id = id

\* the elements of an array
Elements(array) == {array[i] : i \in 1..Len(array)}

\* if (!settings.worldbooks[worldName]) settings.worldbooks[worldName] = {groups: {}, groupOrder: []}
EnsureBook(book) ==
    IF book.exists THEN book
    ELSE [exists |-> TRUE, groups |-> <<>>, hasOrder |-> TRUE, groupOrder |-> <<>>]

\* if (!....groupOrder) ....groupOrder = Object.keys(....groups)
EnsureOrder(book) ==
    IF book.hasOrder THEN book
    ELSE [book EXCEPT !.hasOrder = TRUE, !.groupOrder = GroupKeys(book.groups)]

\* getWorldGroups: the world-book after the call (the call returns its groups)
getWorldGroups(book) == EnsureOrder(EnsureBook(book))

\* for (const groupId of Object.keys(groups)) if (!order.includes(groupId)) order.push(groupId)
RECURSIVE PushMissing(_, _)
PushMissing(order, keys) ==
    IF keys = <<>> THEN order
    ELSE PushMissing(IF Head(keys) \in Elements(order) THEN order ELSE Append(order, Head(keys)),
                     Tail(keys))

\* getGroupOrder: the world-book after the call (the call returns its groupOrder)
getGroupOrder(book) ==
    LET b == EnsureOrder(EnsureBook(book))
        kept == SelectSeq(b.groupOrder, LAMBDA id : HasGroup(b.groups, id))
    IN  [b EXCEPT !.groupOrder = PushMissing(kept, GroupKeys(b.groups))]

\* setGroupOrder: the world-book after the call, and what the call returns
setGroupOrder(book, order) ==
    IF book.exists
    THEN [book |-> [book EXCEPT !.hasOrder = TRUE, !.groupOrder = order], ok |-> TRUE]
    ELSE [book |-> book, ok |-> FALSE]

\* createGroup: the world-book after the call with the group of the new id
createGroup(book, groupName, n) ==
    LET b == getWorldGroups(book)
    IN  [b EXCEPT !.groups = Append(b.groups, [id |-> generateId(n), name |-> groupName,
                                               collapsed |-> FALSE, entries |-> <<>>])]

\* deleteGroup: the world-book after the call, and what the call returns
deleteGroup(book, groupId) ==
    LET b == getWorldGroups(book)
    IN  IF HasGroup(b.groups, groupId)
        THEN [book |-> [b EXCEPT !.groups = SelectSeq(b.groups, LAMBDA g : g.id # groupId)],
              ok |-> TRUE]
        ELSE [book |-> b, ok |-> FALSE]

----------------------------------------------------------------------------
(* src/unnamed/part_000 (prompt-entry UI engine): module state.            *)

\* no element (null)
NoNode == 0
\* the list container elements the page can hold
ListNodes == {1, 2}
\* the name of the loaded preset (getLoadedPresetName)
PresetName == "preset"
\* null, for a variable that holds a string
NoSignature == <<>>

\* the engine's timers, by what their callback does:
\*   debounced      scheduleApplyGrouping(delay > 0): observer check, pass   (1828-1835)
\*   reapply        setTimeout(() => scheduleApplyGrouping(0), delay), untracked:
\*                  150 ms after a burst (1942, 1973), 200 ms after a toggle
\*                  click (2088), 450 and 1200 ms after zero resolved (2210-2211)
\*   themeBurst     the timers of triggerGroupingRefreshBurst, tracked in
\*                  themeRefreshTimeouts                                     (1994-1996)
\*   observerRetry  setTimeout(() => setupListObserver(), 1000)              (1925)
\*   postEdit       setTimeout(() => applyGroupingToList(), 200)             (2309, 2321, 2519)
\*   guardReset     setTimeout(() => { isApplyingGrouping = false }, 0)      (2236-2238)
TimerKinds == {"debounced", "reapply", "themeBurst", "observerRetry", "postEdit", "guardReset"}

\* no timer pending
NoTimers == [k \in TimerKinds |-> 0]

\* nothing registered
NothingRegistered ==
    [listObserver |-> 0, panelObserver |-> 0, themeObserver |-> 0, settingsHandler |-> 0,
     toggleHandler |-> 0, promptManagerHook |-> 0]

\* no mutation record queued
NoRecords == [list |-> {}, panel |-> {}]

\* no group header with a toggle-all button exists
NoButton == [state |-> "", disabled |-> FALSE, running |-> FALSE, groupItems |-> <<>>]

\* currentWorldName is null
NoWorld == ""

\* currentWorldData is null
NoData == [of |-> NoWorld, uids |-> {}]

\* the world-info editor's module state as loaded (365-367), with no
\* world-book stored and nothing pending
NoEditor ==
    [currentWorldName |-> NoWorld, currentWorldData |-> NoData, isRefreshing |-> FALSE,
     selected |-> NoWorld, worldbooks |-> <<>>, loads |-> <<>>,
     timers |-> [refresh |-> 0, reset |-> 0], view |-> <<>>, events |-> 0]

\* no pass has run
NoPass == [ran |-> FALSE]

\* the module state as loaded, before initPromptEntryGrouping (lines 1646-1687)
PassStateLoaded ==
    /\ entryGroupingEnabled = TRUE
    /\ listObserver = FALSE /\ observedListNode = NoNode
    /\ panelObserver = FALSE /\ observedPanelNode = FALSE
    /\ themeObserver = FALSE /\ settingsUpdatedUnsubscribe = FALSE
    /\ promptManagerHookInstalled = FALSE
    /\ applyGroupingTimer = FALSE
    /\ isApplyingGrouping = FALSE
    /\ applyGroupingQueued = FALSE
    /\ lastAppliedGroupingSignature = NoSignature
    /\ lastAppliedGroupingPreset = NoStr
    /\ lastAppliedGroupingListNode = NoNode
    /\ zeroResolvedRetryPreset = NoStr
    /\ zeroResolvedRetryCount = 0
    /\ themeRefreshTimeouts = FALSE
    /\ clickCount = 0 /\ clickTimer = FALSE /\ lastClickedIndex = -1
    /\ listNode = 1
    /\ groupingUi = {}
    /\ timers = NoTimers
    /\ microtasks = <<>>
    /\ records = NoRecords
    /\ registered = NothingRegistered
    /\ lastPass = NoPass

\* the module as loaded and no group header built
ModuleLoaded == PassStateLoaded /\ toggleAll = NoButton /\ editor = NoEditor

\* the module as loaded, with timers kept by presence
EngineLoaded == ModuleLoaded /\ timersCounted = FALSE

----------------------------------------------------------------------------
(* src/unnamed/part_000 (prompt-entry UI engine): resolution of anchors.   *)

\* Array.prototype.indexOf: 0-based position of the first occurrence, or -1
indexOf(ids, x) ==
    IF \E i \in 1..Len(ids) : ids[i] = x
    THEN (CHOOSE i \in 1..Len(ids) : ids[i] = x /\ \A j \in 1..(i - 1) : ids[j] # x) - 1
    ELSE -1

Min(a, b) == IF a <= b THEN a ELSE b
Max(a, b) == IF a >= b THEN a ELSE b

\* ids.slice(start, end + 1) as a set, for 0-based start <= end inside the list
SpanSet(ids, start, end) == {ids[i + 1] : i \in start..end}

\* whether the loop body of getGroupedIdentifierSet / the filter and map of
\* applyGroupingToList keep the group: flagged resolved, both anchors in the list
Resolves(g, ids) ==
    /\ ~g.unresolved
    /\ g.startIdentifier # NoStr /\ g.endIdentifier # NoStr
    /\ indexOf(ids, g.startIdentifier) # -1
    /\ indexOf(ids, g.endIdentifier) # -1

\* a faulty variant of GroupSpan that reads the span from the start anchor to
\* the end anchor
GroupSpan_StartToEnd(g, ids) ==
    IF ~Resolves(g, ids) THEN {}
    ELSE SpanSet(ids, indexOf(ids, g.startIdentifier), indexOf(ids, g.endIdentifier))

\* the identifiers one group covers
GroupSpan(g, ids) ==
    IF ~Resolves(g, ids) THEN {}
    ELSE LET startIndex == indexOf(ids, g.startIdentifier)
             endIndex == indexOf(ids, g.endIdentifier)
         IN  SpanSet(ids, Min(startIndex, endIndex), Max(startIndex, endIndex))

getGroupedIdentifierSet(preset, ids, n) ==
    LET groupings == getAllPresetGroupings(preset, ids, n)
    IN  UNION {GroupSpan(groupings[i], ids) : i \in 1..Len(groupings)}

\* applyGroupingToList: groupings.filter((g) => g?.unresolved).length
unresolvedCount(groupings) ==
    Cardinality({i \in 1..Len(groupings) : groupings[i].unresolved})

\* applyGroupingToList: the original indices (0-based) of resolvedGroupings
resolvedGroupings(groupings, ids) ==
    {i - 1 : i \in {j \in 1..Len(groupings) : Resolves(groupings[j], ids)}}

----------------------------------------------------------------------------
(* The state machine of the Group Record Store under host changes.         *)

\* the record of an operation: what was called, with what, and what came back
Call(op) ==
    [op |-> op, groupIndex |-> NoNum, identifier |-> NoStr, decision |-> "",
     startIdentifier |-> NoStr, endIdentifier |-> NoStr,
     ok |-> FALSE, saves |-> 0, skipUpdate |-> FALSE, addCalled |-> FALSE,
     threw |-> FALSE, passes |-> 0]

NoMarks == [start |-> NoStr, end |-> NoStr]
NoMenu ==
    [open |-> FALSE, identifier |-> NoStr, orderedIdentifiers |-> <<>>,
     groupedIdentifiers |-> {}, hasMarks |-> FALSE]
NoDialog == [open |-> FALSE, orderedIdentifiers |-> <<>>, groupedIdentifiers |-> {}]

NoExtensions == [hasExtensions |-> FALSE, hasEntryGrouping |-> FALSE, entryGrouping |-> <<>>]
NoEntryGrouping == [hasExtensions |-> TRUE, hasEntryGrouping |-> FALSE, entryGrouping |-> <<>>]

\* entries a stored entryGrouping array can hold before this code first writes it
StoredSamples ==
    { \* legacy positional, as old versions wrote it
      [Blank EXCEPT !.startIndex = 1, !.endIndex = 3],
      \* anchor-based, complete
      [Blank EXCEPT !.id = 1, !.name = "A", !.mode = DEFAULT_MODE,
                    !.startIdentifier = "p1", !.endIdentifier = "p2"],
      \* anchor-based, written by another tool: groupName, own mode, no id
      [Blank EXCEPT !.groupName = "B", !.mode = "custom",
                    !.startIdentifier = "p4", !.endIdentifier = "p3"],
      \* one anchor only
      [Blank EXCEPT !.id = 2, !.name = "C", !.startIdentifier = "p1"],
      \* a plain object that is no group
      [Blank EXCEPT !.name = "D"],
      \* not an object (null, a number, a string)
      [Blank EXCEPT !.plain = FALSE] }

\* stored arrays of two entries: a legacy group beside an anchor-based one,
\* and an entry that is no group before a group
StoredPairs ==
    { <<[Blank EXCEPT !.startIndex = 1, !.endIndex = 3],
        [Blank EXCEPT !.id = 1, !.name = "A", !.mode = DEFAULT_MODE,
                      !.startIdentifier = "p1", !.endIdentifier = "p2"]>>,
      <<[Blank EXCEPT !.plain = FALSE],
        [Blank EXCEPT !.groupName = "B", !.mode = "custom",
                      !.startIdentifier = "p4", !.endIdentifier = "p3"]>> }

InitPresets ==
    {NoExtensions, NoEntryGrouping, SetEntryGrouping(NoExtensions, <<>>)}
    \cup {SetEntryGrouping(NoExtensions, <<x>>) : x \in StoredSamples}
    \cup {SetEntryGrouping(NoExtensions, raw) : raw \in StoredPairs}

\* the live settings of a freshly loaded host: the selected preset's own data
LiveSettingsOf(preset, isSelected) ==
    IF isSelected
    THEN [plain |-> TRUE, hasExtensions |-> preset.hasExtensions,
          hasEntryGrouping |-> preset.hasEntryGrouping, entryGrouping |-> preset.entryGrouping]
    ELSE [plain |-> TRUE, hasExtensions |-> FALSE, hasEntryGrouping |-> FALSE,
          entryGrouping |-> <<>>]

Init ==
    /\ worldbook = NoBook /\ worldNextId = 0
    /\ EngineLoaded
    /\ orderedIdentifiers = HostOrder
    /\ presetObj \in InitPresets
    /\ selected \in BOOLEAN
    /\ settings = LiveSettingsOf(presetObj, selected)
    /\ nextId = 0
    /\ tempMarks = NoMarks
    /\ menu = NoMenu
    /\ dialog = NoDialog
    /\ last = Call("none")

\* <<startIdentifier, endIdentifier, groupName>> add is called with: two
\* identifiers and a name; an empty string as anchor and no name; an anchor
\* that is no string (either one)
AddArguments ==
    { <<"p2", "p3", "Intro">>, <<"", "p3", "">>, <<NoStr, "p3", "Intro">>, <<"p2", NoStr, "">> }
\* <<startIdentifier, endIdentifier, groupName>> update is called with: all
\* given, all omitted, one anchor given
UpdateArguments ==
    { <<"p3", "p4", "Renamed">>, <<NoStr, NoStr, "">>, <<"p1", NoStr, "">> }
\* the entries the host deletes and brings back
HostChanged == {"p2"}

\* apply the outcome of a store call to the state
Apply(outcome) ==
    /\ presetObj' = outcome.presetObj
    /\ settings' = outcome.settings
    /\ nextId' = outcome.nextId

Add(startIdentifier, endIdentifier, groupName, host) ==
    /\ nextId < MaxFresh
    /\ Len(RawGroupings(presetObj)) < MaxGroups
    /\ \E outcome \in {addPresetGrouping(presetObj, settings, selected, nextId,
                          startIdentifier, endIdentifier, groupName, orderedIdentifiers, host)} :
           /\ Apply(outcome)
           /\ last' = [Call("add") EXCEPT
                          !.decision = IF startIdentifier = NoStr \/ endIdentifier = NoStr
                                       THEN "nonStringAnchor" ELSE "stringAnchors",
                          !.ok = outcome.ok, !.saves = outcome.saves,
                          !.skipUpdate = outcome.skipUpdate, !.addCalled = TRUE]
    /\ UNCHANGED <<worldVars, engineVars, orderedIdentifiers, selected, tempMarks, menu, dialog>>

Update(groupIndex, startIdentifier, endIdentifier, groupName, host) ==
    /\ nextId < MaxFresh
    /\ \E outcome \in {updatePresetGrouping(presetObj, settings, selected, nextId, groupIndex,
                          startIdentifier, endIdentifier, groupName, orderedIdentifiers, host)} :
           /\ Apply(outcome)
           /\ last' = [Call("update") EXCEPT !.groupIndex = groupIndex,
                          !.ok = outcome.ok, !.saves = outcome.saves,
                          !.skipUpdate = outcome.skipUpdate]
    /\ UNCHANGED <<worldVars, engineVars, orderedIdentifiers, selected, tempMarks, menu, dialog>>

Remove(groupIndex, host) ==
    /\ nextId < MaxFresh
    /\ \E outcome \in {removePresetGrouping(presetObj, settings, selected, nextId, groupIndex,
                          orderedIdentifiers, host)} :
           /\ Apply(outcome)
           /\ last' = [Call("remove") EXCEPT !.groupIndex = groupIndex,
                          !.ok = outcome.ok, !.saves = outcome.saves,
                          !.skipUpdate = outcome.skipUpdate]
    /\ UNCHANGED <<worldVars, engineVars, orderedIdentifiers, selected, tempMarks, menu, dialog>>

\* the host deletes an entry from its list
HostRemoveEntry(id) ==
    /\ \E i \in 1..Len(orderedIdentifiers) : orderedIdentifiers[i] = id
    /\ orderedIdentifiers' = SelectSeq(orderedIdentifiers, LAMBDA x : x # id)
    /\ last' = [Call("hostRemove") EXCEPT !.identifier = id]
    /\ UNCHANGED <<worldVars, engineVars, presetObj, settings, selected, nextId, tempMarks, menu, dialog>>

\* the host brings a deleted entry back at its place in the host's order
HostRestoreEntry(id) ==
    /\ \A i \in 1..Len(orderedIdentifiers) : orderedIdentifiers[i] # id
    /\ orderedIdentifiers' =
           SelectSeq(HostOrder, LAMBDA x :
               x = id \/ \E i \in 1..Len(orderedIdentifiers) : orderedIdentifiers[i] = x)
    /\ last' = [Call("hostRestore") EXCEPT !.identifier = id]
    /\ UNCHANGED <<worldVars, engineVars, presetObj, settings, selected, nextId, tempMarks, menu, dialog>>

\* the indices update and remove are called with: every valid one, -1 and length
IndexArguments == -1..Len(getWritableGroupings(RawGroupings(presetObj), orderedIdentifiers, nextId))

Next ==
    \/ \E a \in AddArguments, host \in HostBehaviours : Add(a[1], a[2], a[3], host)
    \/ \E i \in IndexArguments, a \in UpdateArguments, host \in HostBehaviours :
          Update(i, a[1], a[2], a[3], host)
    \/ \E i \in IndexArguments, host \in HostBehaviours : Remove(i, host)
    \/ \E id \in HostChanged : HostRemoveEntry(id)
    \/ \E id \in HostChanged : HostRestoreEntry(id)

Spec == Init /\ [][Next]_vars

----------------------------------------------------------------------------
(* src/lib/utils.js and src/lib/prompt-entry-grouping.js: how the store's  *)
(* functions complete when a host call fails.  A completion is a normal    *)
(* return with a value or a throw; `fault` is the host call that fails     *)
(* during one call of the store.                                           *)

HostFaults ==
    {"none",
     "noContext",                        \* no SillyTavern object: getSillyTavernContext throws
     "getPresetManagerThrows", "getPresetListThrows",
     "getCompletionPresetByNameThrows",
     "presetNotFound",                   \* getCompletionPresetByName returns undefined
     "savePresetThrows", "savePresetRejects"}

\* the faults of host calls the reader makes
ReaderFaults == HostFaults \ {"savePresetThrows", "savePresetRejects"}

Returned(v) == [threw |-> FALSE, value |-> v]
Thrown == [threw |-> TRUE, value |-> "error"]

\* try { body } catch { return v }
Catch(body, v) == IF body.threw THEN Returned(v) ELSE body

\* utils.js getSillyTavernContext
getSillyTavernContext(fault) ==
    IF fault = "noContext" THEN Thrown ELSE Returned("context")

\* utils.js getCurrentApiInfo
getCurrentApiInfo(fault) ==
    Catch(IF getSillyTavernContext(fault).threw THEN Thrown
          ELSE IF fault = "getPresetManagerThrows" THEN Thrown
          ELSE IF fault = "getPresetListThrows" THEN Thrown
          ELSE Returned("apiInfo"),
          "null")

\* presetManager.getCompletionPresetByName(presetName)
getCompletionPresetByName(fault) ==
    IF fault = "getCompletionPresetByNameThrows" THEN Thrown
    ELSE IF fault = "presetNotFound" THEN Returned("undefined")
    ELSE Returned("preset")

\* await presetManager.savePreset(...)
savePreset(fault) ==
    IF fault \in {"savePresetThrows", "savePresetRejects"} THEN Thrown
    ELSE Returned("undefined")

\* getPreset
getPreset(fault) ==
    Catch(IF getCurrentApiInfo(fault).value = "null" THEN Returned("null")
          ELSE IF getCompletionPresetByName(fault).threw THEN Thrown
          ELSE IF getCompletionPresetByName(fault).value = "undefined" THEN Returned("null")
          ELSE Returned("preset"),
          "null")

\* the try/catch of getAllPresetGroupings; `list` is what it reads from the
\* preset object when every host call succeeds
getAllPresetGroupingsCompletion(fault, list) ==
    Catch(IF getPreset(fault).value = "null" THEN Returned(<<>>)
          ELSE Returned(list),
          <<>>)

\* the body the three mutators share after their argument checks
\* (281-304, 323-350, 366-386): indexOk is the range check on groupIndex
MutatorBody(fault, indexOk) ==
    IF getCurrentApiInfo(fault).value = "null" THEN Returned("false")
    ELSE IF getCompletionPresetByName(fault).threw THEN Thrown
    ELSE IF getCompletionPresetByName(fault).value = "undefined" THEN Thrown
    ELSE IF ~indexOk THEN Thrown
    ELSE IF savePreset(fault).threw THEN Thrown
    ELSE Returned("true")

\* the try/catch of addPresetGrouping
addPresetGroupingCompletion(fault, startIdentifier, endIdentifier) ==
    Catch(IF startIdentifier = NoStr \/ endIdentifier = NoStr THEN Thrown
          ELSE MutatorBody(fault, TRUE),
          "false")

\* the try/catch of updatePresetGrouping
updatePresetGroupingCompletion(fault, groupIndex, length) ==
    Catch(MutatorBody(fault, groupIndex >= 0 /\ groupIndex < length), "false")

\* a faulty variant of removePresetGrouping without its catch block
removePresetGroupingCompletion_NoCatch(fault, groupIndex, length) ==
    MutatorBody(fault, groupIndex >= 0 /\ groupIndex < length)

\* the try/catch of removePresetGrouping
removePresetGroupingCompletion(fault, groupIndex, length) ==
    Catch(MutatorBody(fault, groupIndex >= 0 /\ groupIndex < length), "false")

\* what the fault means for the stored data: nothing was read
\* ("unavailable"), or the write failed after the in-memory change
HostOf(fault) ==
    IF fault = "none" THEN "ok"
    ELSE IF fault \in {"savePresetThrows", "savePresetRejects"} THEN "saveRejects"
    ELSE "unavailable"

InitPresetsHost ==
    {NoExtensions,
     SetEntryGrouping(NoExtensions,
         <<[Blank EXCEPT !.id = 1, !.name = "A", !.mode = DEFAULT_MODE,
                         !.startIdentifier = "p1", !.endIdentifier = "p2"]>>)}

InitHost ==
    /\ worldbook = NoBook /\ worldNextId = 0
    /\ EngineLoaded
    /\ orderedIdentifiers = HostOrder
    /\ presetObj \in InitPresetsHost
    /\ selected = TRUE
    /\ settings = LiveSettingsOf(presetObj, selected)
    /\ nextId = 0
    /\ tempMarks = NoMarks
    /\ menu = NoMenu
    /\ dialog = NoDialog
    /\ last = Call("none")

\* a call of a mutator while the host fails at `fault`
HostCall(op, fault, outcome, completion) ==
    /\ Apply(outcome)
    /\ last' = [Call(op) EXCEPT !.decision = fault,
                                !.ok = (completion.value = "true"),
                                !.threw = completion.threw,
                                !.saves = outcome.saves]
    /\ UNCHANGED <<worldVars, engineVars, orderedIdentifiers, selected, tempMarks, menu, dialog>>

AddUnderFault(startIdentifier, endIdentifier, groupName, fault) ==
    /\ nextId < MaxFresh
    /\ Len(RawGroupings(presetObj)) < MaxGroups
    /\ HostCall("add", fault,
                addPresetGrouping(presetObj, settings, selected, nextId, startIdentifier,
                                  endIdentifier, groupName, orderedIdentifiers, HostOf(fault)),
                addPresetGroupingCompletion(fault, startIdentifier, endIdentifier))

UpdateUnderFault(groupIndex, fault) ==
    /\ nextId < MaxFresh
    /\ HostCall("update", fault,
                updatePresetGrouping(presetObj, settings, selected, nextId, groupIndex,
                                     "p3", "p4", "Renamed", orderedIdentifiers, HostOf(fault)),
                updatePresetGroupingCompletion(fault, groupIndex,
                    Len(getWritableGroupings(RawGroupings(presetObj), orderedIdentifiers, nextId))))

RemoveUnderFault(groupIndex, fault) ==
    /\ nextId < MaxFresh
    /\ HostCall("remove", fault,
                removePresetGrouping(presetObj, settings, selected, nextId, groupIndex,
                                     orderedIdentifiers, HostOf(fault)),
                removePresetGroupingCompletion(fault, groupIndex,
                    Len(getWritableGroupings(RawGroupings(presetObj), orderedIdentifiers, nextId))))

\* getAllPresetGroupings while the host fails at `fault`; last.saves holds
\* the length of the list returned
ReadUnderFault(fault) ==
    /\ \E completion \in {getAllPresetGroupingsCompletion(fault,
                              getAllPresetGroupings(presetObj, orderedIdentifiers, nextId))} :
           last' = [Call("read") EXCEPT !.decision = fault,
                                        !.threw = completion.threw,
                                        !.saves = IF completion.threw THEN 0
                                                  ELSE Len(completion.value)]
    /\ UNCHANGED <<worldVars, engineVars, promptVars>>

NextHost ==
    \/ \E a \in AddArguments, fault \in HostFaults : AddUnderFault(a[1], a[2], a[3], fault)
    \/ \E i \in IndexArguments, fault \in HostFaults : UpdateUnderFault(i, fault)
    \/ \E i \in IndexArguments, fault \in HostFaults : RemoveUnderFault(i, fault)
    \/ \E fault \in ReaderFaults : ReadUnderFault(fault)

SpecHost == InitHost /\ [][NextHost]_vars

----------------------------------------------------------------------------
(* src/unnamed/part_000: the two-mark group creation flow                  *)
(* (showGroupingMenu, handleMarkComplete, showInputDialog) and the delete  *)
(* button of a group header (createGroupUI).                               *)

\* a faulty variant of showGroupingMenu without the membership test of 2452-2455
ShowGroupingMenu_NoMembershipTest(identifier) ==
    /\ ~dialog.open
    /\ indexOf(orderedIdentifiers, identifier) # -1
    /\ \E grouped \in {getGroupedIdentifierSet(presetObj, orderedIdentifiers, nextId)} :
           /\ menu' = [open |-> TRUE, identifier |-> identifier,
                       orderedIdentifiers |-> orderedIdentifiers,
                       groupedIdentifiers |-> {},
                       hasMarks |-> (tempMarks.start # NoStr \/ tempMarks.end # NoStr)]
           /\ last' = [Call("showGroupingMenu") EXCEPT !.identifier = identifier,
                                                       !.ok = TRUE]
    /\ UNCHANGED <<worldVars, engineVars, orderedIdentifiers, presetObj, settings, selected, nextId, tempMarks, dialog>>

\* showGroupingMenu($item): the third click on the entry `identifier`
ShowGroupingMenu(identifier) ==
    /\ ~dialog.open
    /\ indexOf(orderedIdentifiers, identifier) # -1
    /\ \E grouped \in {getGroupedIdentifierSet(presetObj, orderedIdentifiers, nextId)} :
           \* $('.peg-menu').remove() comes before the membership test
           /\ menu' = IF identifier \in grouped THEN NoMenu
                      ELSE [open |-> TRUE, identifier |-> identifier,
                            orderedIdentifiers |-> orderedIdentifiers,
                            groupedIdentifiers |-> grouped,
                            hasMarks |-> (tempMarks.start # NoStr \/ tempMarks.end # NoStr)]
           /\ last' = [Call("showGroupingMenu") EXCEPT !.identifier = identifier,
                                                       !.ok = (identifier \notin grouped)]
    /\ UNCHANGED <<worldVars, engineVars, orderedIdentifiers, presetObj, settings, selected, nextId, tempMarks, dialog>>

\* handleMarkComplete(isStart), after the mark was stored: the name dialog
\* opens when the other mark is set, and its callback keeps the menu's
\* orderedIdentifiers and groupedIdentifiers
DialogAfterMark(otherMark) ==
    IF otherMark # NoStr
    THEN [open |-> TRUE, orderedIdentifiers |-> menu.orderedIdentifiers,
          groupedIdentifiers |-> menu.groupedIdentifiers]
    ELSE dialog

\* click on the menu item "set-start"
ClickSetStart ==
    /\ menu.open /\ ~dialog.open
    /\ IF menu.identifier \in menu.groupedIdentifiers
       THEN UNCHANGED <<tempMarks, menu, dialog>>
       ELSE /\ tempMarks' = [tempMarks EXCEPT !.start = menu.identifier]
            /\ menu' = NoMenu
            /\ dialog' = DialogAfterMark(tempMarks.end)
    /\ last' = [Call("setStart") EXCEPT !.identifier = menu.identifier]
    /\ UNCHANGED <<worldVars, engineVars, orderedIdentifiers, presetObj, settings, selected, nextId>>

\* click on the menu item "set-end"
ClickSetEnd ==
    /\ menu.open /\ ~dialog.open
    /\ IF menu.identifier \in menu.groupedIdentifiers
       THEN UNCHANGED <<tempMarks, menu, dialog>>
       ELSE /\ tempMarks' = [tempMarks EXCEPT !.end = menu.identifier]
            /\ menu' = NoMenu
            /\ dialog' = DialogAfterMark(tempMarks.start)
    /\ last' = [Call("setEnd") EXCEPT !.identifier = menu.identifier]
    /\ UNCHANGED <<worldVars, engineVars, orderedIdentifiers, presetObj, settings, selected, nextId>>

\* click on the menu item "clear-marks", which the menu has when a mark was set
ClickClearMarks ==
    /\ menu.open /\ ~dialog.open /\ menu.hasMarks
    /\ tempMarks' = NoMarks
    /\ menu' = NoMenu
    /\ last' = Call("clearMarks")
    /\ UNCHANGED <<worldVars, engineVars, orderedIdentifiers, presetObj, settings, selected, nextId, dialog>>

\* a click outside the menu closes it
CloseMenu ==
    /\ menu.open /\ ~dialog.open
    /\ menu' = NoMenu
    /\ last' = Call("closeMenu")
    /\ UNCHANGED <<worldVars, engineVars, orderedIdentifiers, presetObj, settings, selected, nextId, tempMarks, dialog>>

\* a faulty variant of hasOverlap that looks at the two marked entries only
hasOverlap_AnchorsOnly(ids, grouped, startIndex, endIndex) ==
    {ids[startIndex + 1], ids[endIndex + 1]} \cap grouped # {}

\* hasOverlap of the dialog callback:
\* orderedIdentifiers.slice(start, end + 1).some((id) => groupedIdentifiers.has(id))
hasOverlap(ids, grouped, startIndex, endIndex) ==
    SpanSet(ids, Min(startIndex, endIndex), Max(startIndex, endIndex)) \cap grouped # {}

\* what the dialog callback of handleMarkComplete decides:
\* "unresolvable", "overlap" or "add"
MarkDecision(ids, grouped, marks) ==
    LET startIndex == indexOf(ids, marks.start)
        endIndex == indexOf(ids, marks.end)
    IN  IF startIndex = -1 \/ endIndex = -1 THEN "unresolvable"
        ELSE IF hasOverlap(ids, grouped, startIndex, endIndex) THEN "overlap"
        ELSE "add"

\* the name dialog is confirmed with a non-empty name
DialogConfirm(groupName, host) ==
    /\ dialog.open
    /\ \E decision \in {MarkDecision(dialog.orderedIdentifiers, dialog.groupedIdentifiers,
                                     tempMarks)} :
           IF decision = "add"
           THEN /\ nextId < MaxFresh
                /\ Len(RawGroupings(presetObj)) < MaxGroups
                /\ \E outcome \in {addPresetGrouping(presetObj, settings, selected, nextId,
                                       tempMarks.start, tempMarks.end, groupName,
                                       dialog.orderedIdentifiers, host)} :
                       /\ Apply(outcome)
                       /\ last' = [Call("confirm") EXCEPT !.decision = decision,
                                      !.startIdentifier = tempMarks.start,
                                      !.endIdentifier = tempMarks.end,
                                      !.ok = outcome.ok, !.saves = outcome.saves,
                                      !.skipUpdate = outcome.skipUpdate, !.addCalled = TRUE]
           ELSE /\ UNCHANGED <<presetObj, settings, nextId>>
                /\ last' = [Call("confirm") EXCEPT !.decision = decision,
                               !.startIdentifier = tempMarks.start,
                               !.endIdentifier = tempMarks.end]
    /\ tempMarks' = NoMarks
    /\ dialog' = NoDialog
    /\ UNCHANGED <<worldVars, engineVars, orderedIdentifiers, selected, menu>>

\* the name dialog is cancelled, or confirmed with an empty name: no callback
DialogDismiss ==
    /\ dialog.open
    /\ dialog' = NoDialog
    /\ last' = Call("dismiss")
    /\ UNCHANGED <<worldVars, engineVars, orderedIdentifiers, presetObj, settings, selected, nextId, tempMarks, menu>>

\* the delete button of the header of the group at groupIndex, confirmed
HeaderRemoveGroup(groupIndex, host) ==
    /\ ~dialog.open
    /\ groupIndex \in resolvedGroupings(
           getAllPresetGroupings(presetObj, orderedIdentifiers, nextId), orderedIdentifiers)
    /\ \E outcome \in {removePresetGrouping(presetObj, settings, selected, nextId, groupIndex,
                           orderedIdentifiers, host)} :
           /\ Apply(outcome)
           /\ last' = [Call("headerRemove") EXCEPT !.groupIndex = groupIndex,
                          !.ok = outcome.ok, !.saves = outcome.saves,
                          !.skipUpdate = outcome.skipUpdate]
    /\ tempMarks' = NoMarks
    /\ UNCHANGED <<worldVars, engineVars, orderedIdentifiers, selected, menu, dialog>>

\* the presets the marking flow starts from: no group; one resolved group
\* spanning p2..p3; one legacy positional group
InitPresetsUI ==
    { NoExtensions,
      SetEntryGrouping(NoExtensions,
          <<[Blank EXCEPT !.id = 1, !.name = "A", !.mode = DEFAULT_MODE,
                          !.startIdentifier = "p2", !.endIdentifier = "p3"]>>),
      SetEntryGrouping(NoExtensions, <<[Blank EXCEPT !.startIndex = 0, !.endIndex = 1]>>) }

InitUI ==
    /\ worldbook = NoBook /\ worldNextId = 0
    /\ EngineLoaded
    /\ orderedIdentifiers = HostOrder
    /\ presetObj \in InitPresetsUI
    /\ selected = TRUE
    /\ settings = LiveSettingsOf(presetObj, selected)
    /\ nextId = 0
    /\ tempMarks = NoMarks
    /\ menu = NoMenu
    /\ dialog = NoDialog
    /\ last = Call("none")

NextUI ==
    \/ \E id \in Identifiers : ShowGroupingMenu(id)
    \/ ClickSetStart
    \/ ClickSetEnd
    \/ ClickClearMarks
    \/ CloseMenu
    \/ \E host \in HostBehaviours : DialogConfirm("Intro", host)
    \/ DialogDismiss
    \/ \E i \in 0..(MaxGroups - 1), host \in HostBehaviours : HeaderRemoveGroup(i, host)
    \/ \E id \in HostChanged : HostRemoveEntry(id)
    \/ \E id \in HostChanged : HostRestoreEntry(id)

SpecUI == InitUI /\ [][NextUI]_vars

----------------------------------------------------------------------------
(* Properties. *)

----------------------------------------------------------------------------
(* The world-info group store as a state machine: the stored world-book    *)
(* is read, groups are created and deleted, and a group is dropped on      *)
(* another group's header (initGroupDragSort).                             *)

\* the group ids a stored world-book may hold; 3 is never a group
StoredGroupIds == {1, 2, 3}

\* a stored group with no entries
StoredGroup(id) == [id |-> id, name |-> "G", collapsed |-> FALSE, entries |-> <<>>]

\* the groups objects of the stored world-books
InitWorldGroups ==
    { <<>>, <<StoredGroup(1)>>, <<StoredGroup(1), StoredGroup(2)>>,
      <<StoredGroup(2), StoredGroup(1)>> }

\* the groupOrder arrays of the stored world-books: every array of at most
\* MaxStoredOrder ids, with stale ids, missing ids and repeated ids
InitGroupOrders ==
    UNION {[1..n -> StoredGroupIds] : n \in 0..MaxStoredOrder}

InitWorld ==
    /\ worldbook \in
           {NoBook}
           \cup {[exists |-> TRUE, groups |-> g, hasOrder |-> FALSE, groupOrder |-> <<>>] :
                    g \in InitWorldGroups}
           \cup {[exists |-> TRUE, groups |-> g, hasOrder |-> TRUE, groupOrder |-> o] :
                    g \in InitWorldGroups, o \in InitGroupOrders}
    /\ worldNextId = 0
    /\ EngineLoaded
    /\ orderedIdentifiers = HostOrder
    /\ presetObj = NoExtensions
    /\ selected = TRUE
    /\ settings = LiveSettingsOf(presetObj, selected)
    /\ nextId = 0
    /\ tempMarks = NoMarks
    /\ menu = NoMenu
    /\ dialog = NoDialog
    /\ last = Call("none")

\* getGroupOrder(worldName) is called (refreshGroupedView, the group menus)
ReadGroupOrder ==
    /\ worldbook' = getGroupOrder(worldbook)
    /\ last' = [Call("getGroupOrder") EXCEPT !.ok = TRUE]
    /\ UNCHANGED <<worldNextId, promptVars, engineVars>>

CreateGroup ==
    /\ worldNextId < MaxCreated
    /\ worldbook' = createGroup(worldbook, "New", worldNextId)
    /\ worldNextId' = worldNextId + 1
    /\ last' = [Call("createGroup") EXCEPT !.ok = TRUE]
    /\ UNCHANGED <<promptVars, engineVars>>

DeleteGroup(groupId) ==
    /\ \E outcome \in {deleteGroup(worldbook, groupId)} :
           /\ worldbook' = outcome.book
           /\ last' = [Call("deleteGroup") EXCEPT !.groupIndex = groupId, !.ok = outcome.ok]
    /\ UNCHANGED <<worldNextId, promptVars, engineVars>>

\* order.splice(fromIndex, 1)
RemoveAt(order, index) ==
    [i \in 1..(Len(order) - 1) |-> IF i <= index THEN order[i] ELSE order[i + 1]]

\* a faulty variant of InsertAt that puts the id behind the element at index
InsertAt_Behind(order, index, id) ==
    LET at == IF index + 1 > Len(order) THEN Len(order) ELSE index + 1
    IN  [i \in 1..(Len(order) + 1) |->
            IF i <= at THEN order[i] ELSE IF i = at + 1 THEN id ELSE order[i - 1]]

\* order.splice(toIndex, 0, id)
InsertAt(order, index, id) ==
    LET at == IF index > Len(order) THEN Len(order) ELSE index
    IN  [i \in 1..(Len(order) + 1) |->
            IF i <= at THEN order[i] ELSE IF i = at + 1 THEN id ELSE order[i - 1]]

\* the drop handler of initGroupDragSort: the group draggedGroupId is dropped
\* on the header of the group targetGroupId
DropGroup(draggedGroupId, targetGroupId) ==
    /\ IF draggedGroupId = targetGroupId
       THEN /\ worldbook' = worldbook
            /\ last' = [Call("dropGroup") EXCEPT !.groupIndex = draggedGroupId,
                                                 !.identifier = "self"]
       ELSE \E book \in {getGroupOrder(worldbook)} :
              LET order == book.groupOrder
                  fromIndex == indexOf(order, draggedGroupId)
                  toIndex == indexOf(order, targetGroupId)
              IN  IF fromIndex # -1 /\ toIndex # -1
                  THEN /\ worldbook' =
                             setGroupOrder(book, InsertAt(RemoveAt(order, fromIndex), toIndex,
                                                          draggedGroupId)).book
                       /\ last' = [Call("dropGroup") EXCEPT !.groupIndex = draggedGroupId,
                                                            !.ok = TRUE]
                  ELSE /\ worldbook' = book
                       /\ last' = [Call("dropGroup") EXCEPT !.groupIndex = draggedGroupId]
    /\ UNCHANGED <<worldNextId, promptVars, engineVars>>

NextWorld ==
    \/ ReadGroupOrder
    \/ CreateGroup
    \/ \E id \in StoredGroupIds : DeleteGroup(id)
    \/ \E a \in StoredGroupIds, b \in StoredGroupIds : DropGroup(a, b)

SpecWorld == InitWorld /\ [][NextWorld]_vars

----------------------------------------------------------------------------
(* src/unnamed/part_000 (world-info group store, lines 140-330): the       *)
(* entries of the groups.  An entry UID is a number; uidMatch compares the *)
(* decimal strings of two UIDs, which for numbers is equality.             *)

\* uidMatch (288-290)
uidMatch(uid1, uid2) == uid1 = uid2

\* isEntryInGroup (295-297)
isEntryInGroup(groupEntries, entryUid) ==
    \E i \in 1..Len(groupEntries) : uidMatch(groupEntries[i], entryUid)

\* entries.findIndex(u => uidMatch(u, uid)), then splice(idx, 1) if idx !== -1
SpliceFirst(entries, uid) ==
    LET idx == indexOf(entries, uid)
    IN  IF idx # -1 THEN RemoveAt(entries, idx) ELSE entries

\* groups[groupId].entries
EntriesOf(groups, groupId) ==
    LET i == CHOOSE i \in 1..Len(groups) : groups[i].id = groupId
    IN  groups[i].entries

\* addEntryToGroup (145-166): the world-book after the call, and what the
\* call returns
addEntryToGroup(book, groupId, uid) ==
    LET b == getWorldGroups(book)
        removed == [i \in 1..Len(b.groups) |->
                       [b.groups[i] EXCEPT !.entries = SpliceFirst(@, uid)]]
    IN  IF HasGroup(removed, groupId) /\ ~isEntryInGroup(EntriesOf(removed, groupId), uid)
        THEN [book |-> [b EXCEPT !.groups =
                           [i \in 1..Len(removed) |->
                               IF removed[i].id = groupId
                               THEN [removed[i] EXCEPT !.entries = Append(@, uid)]
                               ELSE removed[i]]],
              ok |-> TRUE]
        ELSE [book |-> [b EXCEPT !.groups = removed], ok |-> FALSE]

\* the position in Object.keys(groups) of the first group that holds the uid,
\* or 0
FirstGroupWith(groups, uid) ==
    IF \E i \in 1..Len(groups) : isEntryInGroup(groups[i].entries, uid)
    THEN CHOOSE i \in 1..Len(groups) :
             /\ isEntryInGroup(groups[i].entries, uid)
             /\ \A j \in 1..(i - 1) : ~isEntryInGroup(groups[j].entries, uid)
    ELSE 0

\* a faulty variant of removeEntryFromGroup that deletes the group it empties
removeEntryFromGroup_DropsEmpty(book, uid) ==
    LET b == getWorldGroups(book)
        at == FirstGroupWith(b.groups, uid)
        spliced == [b.groups EXCEPT ![at].entries = SpliceFirst(@, uid)]
    IN  IF at # 0
        THEN [book |-> [b EXCEPT !.groups = SelectSeq(spliced, LAMBDA g : g.entries # <<>>)],
              ok |-> TRUE, groupId |-> b.groups[at].id]
        ELSE [book |-> b, ok |-> FALSE, groupId |-> NoId]

\* removeEntryFromGroup (173-188): the world-book after the call, what the
\* call returns, and the group the entry was taken from
removeEntryFromGroup(book, uid) ==
    LET b == getWorldGroups(book)
        at == FirstGroupWith(b.groups, uid)
    IN  IF at # 0
        THEN [book |-> [b EXCEPT !.groups[at].entries = SpliceFirst(@, uid)],
              ok |-> TRUE, groupId |-> b.groups[at].id]
        ELSE [book |-> b, ok |-> FALSE, groupId |-> NoId]

\* setGroupEntries (271-283)
setGroupEntries(book, groupId, entryUids) ==
    LET b == getWorldGroups(book)
    IN  IF HasGroup(b.groups, groupId)
        THEN [book |-> [b EXCEPT !.groups =
                           [i \in 1..Len(b.groups) |->
                               IF b.groups[i].id = groupId
                               THEN [b.groups[i] EXCEPT !.entries = entryUids]
                               ELSE b.groups[i]]],
              ok |-> TRUE]
        ELSE [book |-> b, ok |-> FALSE]

\* cleanOrphanedReferences (304-327); validUids is the set of the keys of
\* worldData.entries
cleanOrphanedReferences(book, validUids) ==
    LET b == getWorldGroups(book)
        filtered == [i \in 1..Len(b.groups) |->
                        [b.groups[i] EXCEPT !.entries =
                            SelectSeq(@, LAMBDA uid : uid \in validUids)]]
    IN  [book |-> [b EXCEPT !.groups = filtered], ok |-> filtered # b.groups]

----------------------------------------------------------------------------
(* The world-info group store as a state machine over the entries of the   *)
(* groups: the context menu of an entry adds it to a group or removes it   *)
(* (985-1010), the edit popup of a group sets its entries (600-614), a     *)
(* refresh prunes the entries the world-book no longer has (646), and      *)
(* groups are deleted.                                                     *)

\* the entry UIDs of the world-book
EntryUids == {1, 2}

\* the longest entries array the edit popup and the stored data give a group
MaxEntries == 2

\* the entries arrays of at most MaxEntries UIDs
EntryLists == UNION {[1..n -> EntryUids] : n \in 0..MaxEntries}

\* the stored world-books: no world-book; one group; two groups with an
\* entry each; two groups, the second empty
InitEntryBooks ==
    { NoBook,
      [exists |-> TRUE, hasOrder |-> TRUE, groupOrder |-> <<1>>,
       groups |-> <<[StoredGroup(1) EXCEPT !.entries = <<1>>]>>],
      [exists |-> TRUE, hasOrder |-> TRUE, groupOrder |-> <<2, 1>>,
       groups |-> <<[StoredGroup(1) EXCEPT !.entries = <<1>>],
                    [StoredGroup(2) EXCEPT !.entries = <<2>>]>>],
      [exists |-> TRUE, hasOrder |-> FALSE, groupOrder |-> <<>>,
       groups |-> <<[StoredGroup(1) EXCEPT !.entries = <<1, 2>>], StoredGroup(2)>>] }

InitEntries ==
    /\ worldbook \in InitEntryBooks
    /\ worldNextId = 0
    /\ EngineLoaded
    /\ orderedIdentifiers = HostOrder
    /\ presetObj = NoExtensions
    /\ selected = TRUE
    /\ settings = LiveSettingsOf(presetObj, selected)
    /\ nextId = 0
    /\ tempMarks = NoMarks
    /\ menu = NoMenu
    /\ dialog = NoDialog
    /\ last = Call("none")

\* the step of a call of the store on the world-book
EntryCall(op, groupId, book, ok) ==
    /\ worldbook' = book
    /\ last' = [Call(op) EXCEPT !.groupIndex = groupId, !.ok = ok]
    /\ UNCHANGED <<worldNextId, promptVars, engineVars>>

AddEntryToGroup(groupId, uid) ==
    \E outcome \in {addEntryToGroup(worldbook, groupId, uid)} :
        EntryCall("addEntryToGroup", groupId, outcome.book, outcome.ok)

RemoveEntryFromGroup(uid) ==
    \E outcome \in {removeEntryFromGroup(worldbook, uid)} :
        EntryCall("removeEntryFromGroup", outcome.groupId, outcome.book, outcome.ok)

SetGroupEntries(groupId, entryUids) ==
    \E outcome \in {setGroupEntries(worldbook, groupId, entryUids)} :
        EntryCall("setGroupEntries", groupId, outcome.book, outcome.ok)

CleanOrphanedReferences(validUids) ==
    \E outcome \in {cleanOrphanedReferences(worldbook, validUids)} :
        EntryCall("cleanOrphanedReferences", NoId, outcome.book, outcome.ok)

\* the calls name the ids of StoredGroupIds: the stored groups and an id that
\* is no group
NextEntries ==
    \/ \E id \in StoredGroupIds, uid \in EntryUids : AddEntryToGroup(id, uid)
    \/ \E uid \in EntryUids : RemoveEntryFromGroup(uid)
    \/ \E id \in StoredGroupIds, uids \in EntryLists : SetGroupEntries(id, uids)
    \/ \E validUids \in SUBSET EntryUids : CleanOrphanedReferences(validUids)
    \/ ReadGroupOrder
    \/ \E id \in StoredGroupIds : DeleteGroup(id)

SpecEntries == InitEntries /\ [][NextEntries]_vars

----------------------------------------------------------------------------
(* src/unnamed/part_000 (prompt-entry UI engine, lines 1637-2625).         *)
(* Each function of the engine is an operator from the engine's state      *)
(* before the call to its state after it.  The state is the module's       *)
(* variables together with what the calls do to the page and to the        *)
(* browser's event loop: timers set and cleared, the microtask queued,     *)
(* observers connected and disconnected, mutation records queued for them. *)
(* The functions read the loaded preset (presetObj) and the list's entries *)
(* (orderedIdentifiers) where the code reads them.                         *)

\* the engine's state as one value
Engine ==
    [entryGroupingEnabled |-> entryGroupingEnabled,
     listObserver |-> listObserver, observedListNode |-> observedListNode,
     panelObserver |-> panelObserver, observedPanelNode |-> observedPanelNode,
     themeObserver |-> themeObserver,
     settingsUpdatedUnsubscribe |-> settingsUpdatedUnsubscribe,
     promptManagerHookInstalled |-> promptManagerHookInstalled,
     applyGroupingTimer |-> applyGroupingTimer,
     isApplyingGrouping |-> isApplyingGrouping,
     applyGroupingQueued |-> applyGroupingQueued,
     lastAppliedGroupingSignature |-> lastAppliedGroupingSignature,
     lastAppliedGroupingPreset |-> lastAppliedGroupingPreset,
     lastAppliedGroupingListNode |-> lastAppliedGroupingListNode,
     zeroResolvedRetryPreset |-> zeroResolvedRetryPreset,
     zeroResolvedRetryCount |-> zeroResolvedRetryCount,
     themeRefreshTimeouts |-> themeRefreshTimeouts,
     clickCount |-> clickCount, clickTimer |-> clickTimer,
     lastClickedIndex |-> lastClickedIndex,
     listNode |-> listNode, groupingUi |-> groupingUi, timers |-> timers,
     microtasks |-> microtasks, records |-> records, registered |-> registered,
     timersCounted |-> timersCounted, lastPass |-> lastPass]

\* the state after a call is the value the call's operator gives
SetEngine(e) ==
    /\ entryGroupingEnabled' = e.entryGroupingEnabled
    /\ listObserver' = e.listObserver
    /\ observedListNode' = e.observedListNode
    /\ panelObserver' = e.panelObserver
    /\ observedPanelNode' = e.observedPanelNode
    /\ themeObserver' = e.themeObserver
    /\ settingsUpdatedUnsubscribe' = e.settingsUpdatedUnsubscribe
    /\ promptManagerHookInstalled' = e.promptManagerHookInstalled
    /\ applyGroupingTimer' = e.applyGroupingTimer
    /\ isApplyingGrouping' = e.isApplyingGrouping
    /\ applyGroupingQueued' = e.applyGroupingQueued
    /\ lastAppliedGroupingSignature' = e.lastAppliedGroupingSignature
    /\ lastAppliedGroupingPreset' = e.lastAppliedGroupingPreset
    /\ lastAppliedGroupingListNode' = e.lastAppliedGroupingListNode
    /\ zeroResolvedRetryPreset' = e.zeroResolvedRetryPreset
    /\ zeroResolvedRetryCount' = e.zeroResolvedRetryCount
    /\ themeRefreshTimeouts' = e.themeRefreshTimeouts
    /\ clickCount' = e.clickCount
    /\ clickTimer' = e.clickTimer
    /\ lastClickedIndex' = e.lastClickedIndex
    /\ listNode' = e.listNode
    /\ groupingUi' = e.groupingUi
    /\ timers' = e.timers
    /\ microtasks' = e.microtasks
    /\ records' = e.records
    /\ registered' = e.registered
    /\ timersCounted' = e.timersCounted
    /\ lastPass' = e.lastPass
    /\ UNCHANGED <<toggleAll, editor>>

\* setTimeout(callback, delay).  The debounced timer is counted; of every
\* other kind the state keeps whether at least one is pending, unless
\* timersCounted.
SetTimeout(e, kind) ==
    [e EXCEPT !.timers[kind] = IF kind = "debounced" \/ e.timersCounted THEN @ + 1 ELSE 1]

\* Promise.resolve().then(...) and the browser's queueing of the mutation
\* observer microtask: appended unless the same job is already waiting
QueueMicrotask(e, job) ==
    IF \E i \in 1..Len(e.microtasks) : e.microtasks[i] = job THEN e
    ELSE [e EXCEPT !.microtasks = Append(@, job)]

\* a change of the children of the list element, seen by the list observer
\* if one is connected to that element.  kind is "own" for a change of the
\* grouping UI the engine makes, "ui" for a change by the page that removes
\* headers or wrappers, "items" for a change by the page of entries only.
\* Each kind satisfies isRelevantListMutation (1877-1891); "own" and "ui"
\* satisfy nodeHasGroupingUi (1844-1855).
ListMutation(e, kind) ==
    IF e.listObserver /\ e.observedListNode = e.listNode /\ e.listNode # NoNode
    THEN QueueMicrotask([e EXCEPT !.records.list = @ \cup {kind}], "observers")
    ELSE e

\* the list element is added to or removed from the page, seen by the panel
\* observer if one is connected (isRelevantPanelMutation, 1908-1912)
PanelMutation(e) ==
    IF e.panelObserver
    THEN QueueMicrotask([e EXCEPT !.records.panel = @ \cup {"list"}], "observers")
    ELSE e

\* computeGroupingSignature (1695-1710): the joined strings, as the tuple of
\* what is joined
computeGroupingSignature(presetName, ids, groupings) ==
    <<presetName, ids,
      [i \in 1..Len(groupings) |->
          <<groupings[i].name,
            IF groupings[i].startIdentifier = NoStr THEN "" ELSE groupings[i].startIdentifier,
            IF groupings[i].endIdentifier = NoStr THEN "" ELSE groupings[i].endIdentifier,
            groupings[i].mode,
            IF groupings[i].unresolved THEN "1" ELSE "0",
            IF groupings[i].legacyStartIndex = NoNum THEN <<>> ELSE <<groupings[i].legacyStartIndex>>,
            IF groupings[i].legacyEndIndex = NoNum THEN <<>> ELSE <<groupings[i].legacyEndIndex>>>>]>>

\* hasGroupingUi (1761-1763)
hasGroupingUi(e) == e.groupingUi # {}

\* cleanupGroupingUi (1765-1768)
cleanupGroupingUi(e) ==
    IF e.groupingUi = {} THEN e
    ELSE ListMutation([e EXCEPT !.groupingUi = {}], "own")

\* queueApplyGrouping (1797-1811): the part that runs at the call
queueApplyGrouping(e) ==
    IF ~e.entryGroupingEnabled THEN e
    ELSE IF e.applyGroupingQueued THEN e
    ELSE QueueMicrotask([e EXCEPT !.applyGroupingQueued = TRUE], "pass")

\* clearTimeout(applyGroupingTimer)
ClearApplyGroupingTimer(e) ==
    IF e.applyGroupingTimer /\ e.timers["debounced"] > 0
    THEN [e EXCEPT !.timers["debounced"] = @ - 1]
    ELSE e

\* a faulty variant of scheduleApplyGrouping that leaves the pending timer
scheduleApplyGrouping_NoCancel(e, delay) ==
    IF ~e.entryGroupingEnabled THEN e
    ELSE IF delay <= 0
         THEN queueApplyGrouping([e EXCEPT !.applyGroupingTimer = FALSE])
         ELSE SetTimeout([e EXCEPT !.applyGroupingTimer = TRUE], "debounced")

\* scheduleApplyGrouping (1818-1836): the part that runs at the call
scheduleApplyGrouping(e, delay) ==
    IF ~e.entryGroupingEnabled THEN e
    ELSE LET cleared == ClearApplyGroupingTimer(e)
         IN  IF delay <= 0
             THEN queueApplyGrouping([cleared EXCEPT !.applyGroupingTimer = FALSE])
             ELSE SetTimeout([cleared EXCEPT !.applyGroupingTimer = TRUE], "debounced")

\* observer.disconnect() of the list observer: its queued records are dropped
DisconnectListObserver(e) ==
    [e EXCEPT !.registered.listObserver = @ - 1, !.records.list = {}]

\* a faulty variant of setupListObserver that leaves the previous observer
\* connected
setupListObserver_NoDisconnect(e) ==
    IF e.listNode = NoNode THEN SetTimeout(e, "observerRetry")
    ELSE [e EXCEPT !.listObserver = TRUE, !.registered.listObserver = @ + 1,
                   !.observedListNode = e.listNode]

\* setupListObserver (1916-1956)
setupListObserver(e) ==
    LET cleared == IF e.listObserver
                   THEN [DisconnectListObserver(e) EXCEPT !.listObserver = FALSE,
                                                          !.observedListNode = NoNode]
                   ELSE e
    IN  IF cleared.listNode = NoNode THEN SetTimeout(cleared, "observerRetry")
        ELSE [cleared EXCEPT !.listObserver = TRUE, !.registered.listObserver = @ + 1,
                             !.observedListNode = cleared.listNode]

\* a faulty variant of the check that looks only for a missing observer
EnsureListObserver_OnlyIfNone(e) ==
    IF ~e.listObserver THEN setupListObserver(e) ELSE e

\* the check both scheduled passes make before they apply (1805-1808, 1829-1832)
EnsureListObserver(e) ==
    IF ~e.listObserver \/ (e.listNode # NoNode /\ e.observedListNode # e.listNode)
    THEN setupListObserver(e)
    ELSE e

\* a faulty variant of the list observer's callback without the guard
listObserverCallback_NoGuard(e, mutations) ==
    IF mutations = {} THEN e
    ELSE IF mutations \cap {"own", "ui"} # {}
         THEN SetTimeout(scheduleApplyGrouping(e, 0), "reapply")
         ELSE scheduleApplyGrouping(e, 150)

\* the callback of the list observer (1929-1947) on the records delivered
listObserverCallback(e, mutations) ==
    IF e.isApplyingGrouping THEN e
    ELSE IF mutations = {} THEN e
    ELSE IF mutations \cap {"own", "ui"} # {}
         THEN SetTimeout(scheduleApplyGrouping(e, 0), "reapply")
         ELSE scheduleApplyGrouping(e, 150)

\* the callback of the panel observer (1969-1975) on the records delivered
panelObserverCallback(e, mutations) ==
    IF e.isApplyingGrouping THEN e
    ELSE IF mutations = {} THEN e
    ELSE SetTimeout(scheduleApplyGrouping(e, 0), "reapply")

\* setupPanelObserver (1958-1979); document.body exists
setupPanelObserver(e) ==
    IF e.panelObserver /\ e.observedPanelNode THEN e
    ELSE LET cleared == IF e.panelObserver
                        THEN [e EXCEPT !.registered.panelObserver = @ - 1,
                                       !.records.panel = {}]
                        ELSE e
         IN  [cleared EXCEPT !.panelObserver = TRUE, !.registered.panelObserver = @ + 1,
                             !.observedPanelNode = TRUE]

\* clearThemeRefreshTimeouts (1983-1987)
clearThemeRefreshTimeouts(e) ==
    IF ~e.themeRefreshTimeouts THEN e
    ELSE [e EXCEPT !.timers["themeBurst"] = 0, !.themeRefreshTimeouts = FALSE]

\* triggerGroupingRefreshBurst (1989-1997)
triggerGroupingRefreshBurst(e) ==
    IF ~e.entryGroupingEnabled THEN e
    ELSE [SetTimeout(scheduleApplyGrouping(clearThemeRefreshTimeouts(e), 0), "themeBurst")
             EXCEPT !.themeRefreshTimeouts = TRUE]

\* teardownThemeReapplyListener (1999-2013)
teardownThemeReapplyListener(e) ==
    LET cleared == clearThemeRefreshTimeouts(e)
        noObserver == IF cleared.themeObserver
                      THEN [cleared EXCEPT !.registered.themeObserver = @ - 1,
                                           !.themeObserver = FALSE]
                      ELSE cleared
    IN  IF noObserver.settingsUpdatedUnsubscribe
        THEN [noObserver EXCEPT !.registered.settingsHandler = @ - 1,
                                !.settingsUpdatedUnsubscribe = FALSE]
        ELSE noObserver

\* setupThemeReapplyListener (2015-2048); the host has an event source
setupThemeReapplyListener(e) ==
    [teardownThemeReapplyListener(e) EXCEPT
        !.registered.settingsHandler = @ + 1, !.settingsUpdatedUnsubscribe = TRUE,
        !.registered.themeObserver = @ + 1, !.themeObserver = TRUE]

\* installPromptManagerHook (2052-2078), the import taken as done at once;
\* __pegHooked is set exactly while makeDraggable is wrapped
installPromptManagerHook(e) ==
    IF e.promptManagerHookInstalled THEN e
    ELSE [e EXCEPT !.promptManagerHookInstalled = TRUE,
                   !.registered.promptManagerHook = IF @ > 0 THEN @ ELSE @ + 1]

\* setupToggleReapplyListener (2082-2090): .off('click.peg-toggle').on(...)
setupToggleReapplyListener(e) ==
    [e EXCEPT !.registered.toggleHandler = 1]

\* the click handler setupToggleReapplyListener registers (2086-2089)
toggleClickHandler(e) ==
    SetTimeout(scheduleApplyGrouping(e, 0), "reapply")

\* a faulty variant of alreadyApplied that never finds the list up to date
alreadyApplied_Never(e, signature) == FALSE

\* a faulty variant of the signature test that does not look for headers
alreadyApplied_IgnoresUi(e, signature) ==
    /\ e.lastAppliedGroupingSignature = signature
    /\ e.lastAppliedGroupingPreset = PresetName
    /\ e.lastAppliedGroupingListNode = e.listNode

\* the signature check of applyGroupingToList (2139-2144)
alreadyApplied(e, signature) ==
    /\ hasGroupingUi(e)
    /\ e.lastAppliedGroupingSignature = signature
    /\ e.lastAppliedGroupingPreset = PresetName
    /\ e.lastAppliedGroupingListNode = e.listNode

\* the three assignments that record what was applied (2132-2134, 2229-2231)
RecordApplied(e, signature) ==
    [e EXCEPT !.lastAppliedGroupingSignature = signature,
              !.lastAppliedGroupingPreset = PresetName,
              !.lastAppliedGroupingListNode = e.listNode]

\* the zero-resolved branch of applyGroupingToList (2202-2215)
ZeroResolvedRetry(e) ==
    LET own == IF e.zeroResolvedRetryPreset # PresetName
               THEN [e EXCEPT !.zeroResolvedRetryPreset = PresetName,
                              !.zeroResolvedRetryCount = 0]
               ELSE e
    IN  IF own.zeroResolvedRetryCount < 3
        THEN SetTimeout(SetTimeout([own EXCEPT !.zeroResolvedRetryCount = @ + 1], "reapply"),
                        "reapply")
        ELSE own

\* the loop over resolvedGroupings calling createGroupUI (2220-2227): a header
\* and a wrapper for each, each a change of the list's children
CreateGroupUIs(e, resolved) ==
    ListMutation([e EXCEPT !.groupingUi = resolved], "own")

\* cleanupGroupingUi inside a pass, noted in the pass's record
CleanupInPass(e) ==
    [cleanupGroupingUi(e) EXCEPT !.lastPass.rebuilt = @ \/ hasGroupingUi(e)]

\* resetClickState of the bound closure (2352-2355)
resetClickState(e) == [e EXCEPT !.clickCount = 0, !.lastClickedIndex = -1]

\* bindTripleClickEvents (2340-2385): the handlers of the previous closure
\* are taken off, those of a new closure with its own counter are bound; a
\* timer of the previous closure stays pending and resets only that closure
bindTripleClickEvents(e) ==
    IF e.listNode = NoNode THEN e
    ELSE [e EXCEPT !.clickCount = 0, !.clickTimer = FALSE, !.lastClickedIndex = -1]

\* the click handler of the entry at `index` (2359-2383): the state after it
\* and whether it called showGroupingMenu.  onControl: the click's target is
\* inside a toggle, edit, detach or inspect control.
itemClickHandler(e, index, onControl) ==
    IF onControl THEN [engine |-> e, menu |-> FALSE]
    ELSE IF e.lastClickedIndex = index
    THEN IF e.clickCount + 1 >= 3
         THEN [engine |-> resetClickState([e EXCEPT !.clickTimer = FALSE]), menu |-> TRUE]
         ELSE [engine |-> [e EXCEPT !.clickCount = @ + 1, !.clickTimer = TRUE], menu |-> FALSE]
    ELSE [engine |-> [e EXCEPT !.clickCount = 1, !.lastClickedIndex = index,
                               !.clickTimer = TRUE],
          menu |-> FALSE]

\* preUnique.size !== preOrderedIdentifiers.length (2119-2120, 2171-2172)
HasDuplicates(ids) == \E i, j \in 1..Len(ids) : i # j /\ ids[i] = ids[j]

\* a faulty variant of the try block that does not look for duplicates
ApplyBody_NoDuplicateCheck(e, ids, preset, n) ==
    LET preGroupings == getAllPresetGroupings(preset, ids, n)
        signature == computeGroupingSignature(PresetName, ids, preGroupings)
        resolved == resolvedGroupings(preGroupings, ids)
    IN  IF Len(ids) = 0 THEN e
        ELSE bindTripleClickEvents(
            IF Len(preGroupings) = 0 THEN RecordApplied(CleanupInPass(e), signature)
            ELSE IF alreadyApplied(e, signature) THEN e
            ELSE IF resolved = {} THEN ZeroResolvedRetry(CleanupInPass(e))
            ELSE RecordApplied(
                     CreateGroupUIs(
                         [CleanupInPass(e) EXCEPT !.zeroResolvedRetryPreset = NoStr,
                                                  !.zeroResolvedRetryCount = 0,
                                                  !.lastPass.rebuilt = TRUE],
                         resolved),
                     signature))

\* the try block of applyGroupingToList (2106-2233); the list holds the
\* entries named by ids.  cleanupGroupingUi moves entries and removes none,
\* so the second reading of the identifiers (2163-2176) finds what the first
\* found.
ApplyBody(e, ids, preset, n) ==
    LET preGroupings == getAllPresetGroupings(preset, ids, n)
        signature == computeGroupingSignature(PresetName, ids, preGroupings)
        resolved == resolvedGroupings(preGroupings, ids)
    IN  IF Len(ids) = 0 THEN e
        ELSE bindTripleClickEvents(
            IF HasDuplicates(ids) THEN e
            ELSE IF Len(preGroupings) = 0 THEN RecordApplied(CleanupInPass(e), signature)
            ELSE IF alreadyApplied(e, signature) THEN e
            ELSE IF resolved = {} THEN ZeroResolvedRetry(CleanupInPass(e))
            ELSE RecordApplied(
                     CreateGroupUIs(
                         [CleanupInPass(e) EXCEPT !.zeroResolvedRetryPreset = NoStr,
                                                  !.zeroResolvedRetryCount = 0,
                                                  !.lastPass.rebuilt = TRUE],
                         resolved),
                     signature))

\* the record of a pass as it starts: the grouping UI it finds, and whether
\* a pass ran before it with no change since to the stored groups, the
\* entries or the list element
PassStart(e) ==
    [ran |-> TRUE, uiBefore |-> e.groupingUi, uiAfter |-> e.groupingUi, rebuilt |-> FALSE,
     repeat |-> e.lastPass.ran]

\* a faulty variant of applyGroupingToList without the timer that clears the
\* guard
applyGroupingToList_NoReset(e, ids, preset, n) ==
    IF ~e.entryGroupingEnabled THEN e
    ELSE IF e.listNode = NoNode THEN e
    ELSE LET started == [e EXCEPT !.isApplyingGrouping = TRUE,
                                  !.lastPass = PassStart(e)]
             done == ApplyBody(started, ids, preset, n)
         IN  [done EXCEPT !.lastPass.uiAfter = done.groupingUi]

\* applyGroupingToList (2094-2240) when the first statement of its try block
\* throws: the finally block runs, the error leaves the function
applyGroupingToListThrowing(e) ==
    IF ~e.entryGroupingEnabled THEN e
    ELSE IF e.listNode = NoNode THEN e
    ELSE SetTimeout([e EXCEPT !.isApplyingGrouping = TRUE, !.lastPass = PassStart(e)],
                    "guardReset")

\* applyGroupingToList (2094-2240); a preset is loaded
applyGroupingToList(e, ids, preset, n) ==
    IF ~e.entryGroupingEnabled THEN e
    ELSE IF e.listNode = NoNode THEN e
    ELSE LET started == [e EXCEPT !.isApplyingGrouping = TRUE,
                                  !.lastPass = PassStart(e)]
             done == ApplyBody(started, ids, preset, n)
         IN  SetTimeout([done EXCEPT !.lastPass.uiAfter = done.groupingUi], "guardReset")

\* the microtask queueApplyGrouping queues (1802-1810)
queuedPass(e, ids, preset, n) ==
    applyGroupingToList(EnsureListObserver([e EXCEPT !.applyGroupingQueued = FALSE]),
                        ids, preset, n)

\* the callback of the timer scheduleApplyGrouping sets (1828-1835)
debouncedPass(e, ids, preset, n) ==
    [applyGroupingToList(EnsureListObserver(e), ids, preset, n)
        EXCEPT !.applyGroupingTimer = FALSE]

\* initPromptEntryGrouping (2574-2587)
initPromptEntryGrouping(e) ==
    LET on == [e EXCEPT !.entryGroupingEnabled = TRUE]
        hooked == installPromptManagerHook(on)
        observed == setupListObserver(setupThemeReapplyListener(setupPanelObserver(hooked)))
        listening == setupToggleReapplyListener(observed)
    IN  scheduleApplyGrouping(scheduleApplyGrouping(listening, 600), 1800)

\* a faulty variant of destroyPromptEntryGrouping that leaves the grouping UI
destroyPromptEntryGrouping_KeepsUi(e) ==
    LET torn == teardownThemeReapplyListener([e EXCEPT !.entryGroupingEnabled = FALSE])
        noTimer == [ClearApplyGroupingTimer(torn) EXCEPT !.applyGroupingTimer = FALSE]
        noList == IF noTimer.listObserver
                  THEN [DisconnectListObserver(noTimer) EXCEPT !.listObserver = FALSE]
                  ELSE noTimer
        noPanel == IF noList.panelObserver
                   THEN [noList EXCEPT !.registered.panelObserver = @ - 1,
                                       !.records.panel = {}, !.panelObserver = FALSE]
                   ELSE noList
    IN  [noPanel EXCEPT !.observedListNode = NoNode, !.observedPanelNode = FALSE,
                        !.isApplyingGrouping = FALSE, !.applyGroupingQueued = FALSE,
                        !.lastAppliedGroupingSignature = NoSignature,
                        !.lastAppliedGroupingPreset = NoStr,
                        !.lastAppliedGroupingListNode = NoNode]

\* destroyPromptEntryGrouping (2589-2625)
destroyPromptEntryGrouping(e) ==
    LET torn == teardownThemeReapplyListener([e EXCEPT !.entryGroupingEnabled = FALSE])
        noTimer == [ClearApplyGroupingTimer(torn) EXCEPT !.applyGroupingTimer = FALSE]
        noList == IF noTimer.listObserver
                  THEN [DisconnectListObserver(noTimer) EXCEPT !.listObserver = FALSE]
                  ELSE noTimer
        noPanel == IF noList.panelObserver
                   THEN [noList EXCEPT !.registered.panelObserver = @ - 1,
                                       !.records.panel = {}, !.panelObserver = FALSE]
                   ELSE noList
        reset == [noPanel EXCEPT !.observedListNode = NoNode, !.observedPanelNode = FALSE,
                                 !.isApplyingGrouping = FALSE, !.applyGroupingQueued = FALSE,
                                 !.lastAppliedGroupingSignature = NoSignature,
                                 !.lastAppliedGroupingPreset = NoStr,
                                 !.lastAppliedGroupingListNode = NoNode]
    IN  IF reset.listNode # NoNode THEN cleanupGroupingUi(reset) ELSE reset

----------------------------------------------------------------------------
(* The state machine of the prompt-entry UI engine: the exported calls,    *)
(* the browser running the engine's microtasks and timers, and the page    *)
(* and the user acting on the list.  A task starts only when the microtask *)
(* queue is empty; the exported calls can also come from a script that     *)
(* runs between two microtasks.                                            *)

\* the stored groups, the entries or the list element changed: the next pass
\* does not repeat the last one
Changed(e) == [e EXCEPT !.lastPass = NoPass]

\* a step of the engine that leaves the group store as it is
EngineCall(e) ==
    /\ SetEngine(e)
    /\ UNCHANGED <<worldVars, promptVars, last>>

\* whether initPromptEntryGrouping has run and destroyPromptEntryGrouping has
\* not run since
Initialized == entryGroupingEnabled /\ promptManagerHookInstalled

\* the host calls initPromptEntryGrouping (index.js, 2649); last keeps whether
\* the engine was initialized already
InitPromptEntryGrouping ==
    /\ SetEngine(initPromptEntryGrouping(Engine))
    /\ last' = [Call("init") EXCEPT !.decision = IF Initialized THEN "again" ELSE "first"]
    /\ UNCHANGED <<worldVars, promptVars>>

\* the host calls destroyPromptEntryGrouping (index.js, 2664)
DestroyPromptEntryGrouping ==
    /\ SetEngine(IF groupingUi # {} THEN Changed(destroyPromptEntryGrouping(Engine))
                 ELSE destroyPromptEntryGrouping(Engine))
    /\ last' = Call("destroy")
    /\ UNCHANGED <<worldVars, promptVars>>

\* the browser runs the microtask queueApplyGrouping queued
RunQueuedPass ==
    /\ microtasks # <<>> /\ Head(microtasks) = "pass"
    /\ EngineCall(queuedPass([Engine EXCEPT !.microtasks = Tail(@)],
                      orderedIdentifiers, presetObj, nextId))

\* the browser notifies the mutation observers of their queued records, in
\* the order the observers were created: the panel's, then the list's
DeliverMutations ==
    /\ microtasks # <<>> /\ Head(microtasks) = "observers"
    /\ EngineCall(listObserverCallback(
               panelObserverCallback(
                   [Engine EXCEPT !.microtasks = Tail(@), !.records = NoRecords],
                   records.panel),
               records.list))

\* what the callback of a timer of the kind does
TimerCallback(e, kind, ids, preset, n) ==
    CASE kind = "debounced" -> debouncedPass(e, ids, preset, n)
      [] kind \in {"reapply", "themeBurst"} -> scheduleApplyGrouping(e, 0)
      [] kind = "observerRetry" -> setupListObserver(e)
      [] kind = "postEdit" -> applyGroupingToList(e, ids, preset, n)
      [] kind = "guardReset" -> [e EXCEPT !.isApplyingGrouping = FALSE]

\* a pending timer of the kind fires; another of the kind may stay pending
TimerFires(kind) ==
    /\ microtasks = <<>>
    /\ timers[kind] > 0
    /\ \E left \in (IF kind = "debounced" \/ timersCounted THEN {timers[kind] - 1} ELSE {0, 1}) :
           EngineCall(
               TimerCallback([Engine EXCEPT !.timers[kind] = left], kind,
                             orderedIdentifiers, presetObj, nextId))

\* the lists of entries the page renders
RenderedOrders == {HostOrder, SelectSeq(HostOrder, LAMBDA x : x \notin HostChanged)}

\* the page renders the entries again into the list element it has: by the
\* prompt manager, which then calls makeDraggable (the hook, 2066-2072), or
\* by another script
HostRenderList(ids, byPromptManager) ==
    /\ microtasks = <<>>
    /\ listNode # NoNode
    /\ orderedIdentifiers' = ids
    /\ \E rendered \in {ListMutation(Changed([Engine EXCEPT !.groupingUi = {}]),
                                     IF groupingUi # {} THEN "ui" ELSE "items")} :
           SetEngine(IF byPromptManager /\ registered.promptManagerHook > 0
                     THEN scheduleApplyGrouping(rendered, 0)
                     ELSE rendered)
    /\ UNCHANGED <<worldVars, presetObj, settings, selected, nextId, tempMarks, menu, dialog, last>>

\* the page removes its list element, or puts a new one with the entries
HostReplaceList(node) ==
    /\ microtasks = <<>>
    /\ node # listNode
    /\ EngineCall(PanelMutation(Changed([Engine EXCEPT !.listNode = node, !.groupingUi = {}])))

\* the user clicks an entry's toggle
ToggleClick ==
    /\ microtasks = <<>>
    /\ registered.toggleHandler > 0
    /\ EngineCall(toggleClickHandler(Engine))

\* the host emits SETTINGS_UPDATED
SettingsUpdated ==
    /\ microtasks = <<>>
    /\ registered.settingsHandler > 0
    /\ EngineCall(triggerGroupingRefreshBurst(Engine))

\* the delete button of a group header, confirmed (2316-2324)
HeaderDelete(groupIndex) ==
    /\ microtasks = <<>>
    /\ groupIndex \in groupingUi
    /\ \E outcome \in {removePresetGrouping(presetObj, settings, selected, nextId, groupIndex,
                           orderedIdentifiers, "ok")} :
           Apply(outcome)
    /\ tempMarks' = NoMarks
    /\ SetEngine(SetTimeout(Changed(Engine), "postEdit"))
    /\ UNCHANGED <<worldVars, orderedIdentifiers, selected, menu, dialog, last>>

\* the presets the engine starts from: no group; one group spanning p2..p3,
\* which resolves while the list holds both entries
InitPresetsEngine ==
    { NoExtensions,
      SetEntryGrouping(NoExtensions,
          <<[Blank EXCEPT !.id = 1, !.name = "A", !.mode = DEFAULT_MODE,
                          !.startIdentifier = "p2", !.endIdentifier = "p3"]>>) }

InitEngine ==
    /\ worldbook = NoBook /\ worldNextId = 0
    /\ EngineLoaded
    /\ orderedIdentifiers = HostOrder
    /\ presetObj \in InitPresetsEngine
    /\ selected = TRUE
    /\ settings = LiveSettingsOf(presetObj, selected)
    /\ nextId = 0
    /\ tempMarks = NoMarks
    /\ menu = NoMenu
    /\ dialog = NoDialog
    /\ last = Call("none")

NextEngine ==
    \/ InitPromptEntryGrouping
    \/ DestroyPromptEntryGrouping
    \/ RunQueuedPass
    \/ DeliverMutations
    \/ \E kind \in TimerKinds : TimerFires(kind)
    \/ \E ids \in RenderedOrders, byPromptManager \in BOOLEAN : HostRenderList(ids, byPromptManager)
    \/ \E node \in {NoNode} \cup ListNodes : HostReplaceList(node)
    \/ ToggleClick
    \/ SettingsUpdated
    \/ \E i \in 0..(MaxGroups - 1) : HeaderDelete(i)

SpecEngine == InitEngine /\ [][NextEngine]_vars

----------------------------------------------------------------------------
(* The engine while the list holds an identifier twice.                    *)

\* the page adds an entry carrying an identifier the list holds already; the
\* headers and wrappers stay
HostDuplicateEntry(id) ==
    /\ microtasks = <<>>
    /\ listNode # NoNode
    /\ indexOf(orderedIdentifiers, id) # -1
    /\ ~HasDuplicates(orderedIdentifiers)
    /\ orderedIdentifiers' = Append(orderedIdentifiers, id)
    /\ SetEngine(ListMutation(Changed(Engine), "items"))
    /\ UNCHANGED <<worldVars, presetObj, settings, selected, nextId, tempMarks, menu, dialog, last>>

NextDuplicates ==
    \/ InitPromptEntryGrouping
    \/ RunQueuedPass
    \/ DeliverMutations
    \/ \E kind \in TimerKinds : TimerFires(kind)
    \/ \E ids \in RenderedOrders, byPromptManager \in BOOLEAN : HostRenderList(ids, byPromptManager)
    \/ \E id \in HostChanged : HostDuplicateEntry(id)

SpecDuplicates == InitEngine /\ [][NextDuplicates]_vars

----------------------------------------------------------------------------
(* The engine after initPromptEntryGrouping with no event from the page or *)
(* the user: every pending timer is counted, and last.passes counts the    *)
(* passes the retry timers of the zero-resolved branch have queued.        *)

InitRetry ==
    /\ worldbook = NoBook /\ worldNextId = 0
    /\ ModuleLoaded /\ timersCounted = TRUE
    /\ orderedIdentifiers \in RenderedOrders
    /\ presetObj \in InitPresetsEngine
    /\ selected = TRUE
    /\ settings = LiveSettingsOf(presetObj, selected)
    /\ nextId = 0
    /\ tempMarks = NoMarks
    /\ menu = NoMenu
    /\ dialog = NoDialog
    /\ last = Call("none")

\* the host calls initPromptEntryGrouping once
InitOnce ==
    /\ ~Initialized
    /\ InitPromptEntryGrouping

\* the microtask a retry timer's scheduleApplyGrouping(0) queued runs
RunRetryPass ==
    /\ microtasks # <<>> /\ Head(microtasks) = "pass"
    /\ SetEngine(queuedPass([Engine EXCEPT !.microtasks = Tail(@)],
                            orderedIdentifiers, presetObj, nextId))
    /\ last' = [last EXCEPT !.op = "retryPass", !.passes = @ + 1]
    /\ UNCHANGED <<worldVars, promptVars>>

NextRetry ==
    \/ InitOnce
    \/ RunRetryPass
    \/ DeliverMutations
    \/ \E kind \in TimerKinds : TimerFires(kind)

SpecRetry == InitRetry /\ [][NextRetry]_vars

----------------------------------------------------------------------------
(* The guard isApplyingGrouping under every way a pass can end, with the   *)
(* scheduling of the browser: a microtask runs before the next task, and a *)
(* timer that is due runs when the event loop next takes a task.           *)

\* the queued pass runs and throws inside applyGroupingToList
ThrowingPass ==
    /\ microtasks # <<>> /\ Head(microtasks) = "pass"
    /\ EngineCall(applyGroupingToListThrowing(
               EnsureListObserver([Engine EXCEPT !.microtasks = Tail(@),
                                                 !.applyGroupingQueued = FALSE])))

\* the lists the page renders, the empty list among them
RenderedOrEmpty == RenderedOrders \cup {<<>>}

NextGuard ==
    \/ InitOnce
    \/ RunQueuedPass
    \/ ThrowingPass
    \/ DeliverMutations
    \/ \E kind \in TimerKinds : TimerFires(kind)
    \/ \E ids \in RenderedOrEmpty, byPromptManager \in BOOLEAN : HostRenderList(ids, byPromptManager)
    \/ \E id \in HostChanged : HostDuplicateEntry(id)
    \/ ToggleClick

\* a microtask runs; one can run exactly when the queue is not empty
MicrotaskStep == RunQueuedPass \/ ThrowingPass \/ DeliverMutations

\* WF_vars(MicrotaskStep): the browser runs every queued microtask.
\* ENABLED <<MicrotaskStep>>_vars is written as the state predicate it
\* equals, microtasks # <<>>.
MicrotasksRun == []<>(microtasks = <<>>) \/ []<><<MicrotaskStep>>_vars

\* the timer that clears the guard is due at once and can run whenever the
\* event loop takes a task, which it does again and again
SpecGuard ==
    /\ InitEngine /\ [][NextGuard]_vars
    /\ MicrotasksRun
    /\ SF_vars(TimerFires("guardReset"))

----------------------------------------------------------------------------
(* The triple click on an entry (bindTripleClickEvents) while the engine   *)
(* runs.  last holds the clicks as the user made them: last.groupIndex the *)
(* index clicked, last.passes how many counted clicks on that index have   *)
(* followed one another, each within a second of the one before, and       *)
(* last.ok whether the click opened the menu.                              *)

ClickedIndices == {0, 1}

\* the handlers are bound: a pass has reached bindTripleClickEvents
HandlersBound == lastPass.ran /\ listNode # NoNode /\ Len(orderedIdentifiers) > 0

\* the user clicks the entry at `index`, outside its controls
ClickEntry(index) ==
    /\ microtasks = <<>>
    /\ HandlersBound
    /\ \E outcome \in {itemClickHandler(Engine, index, FALSE)} :
           /\ SetEngine(outcome.engine)
           /\ last' = [Call("click") EXCEPT
                          !.groupIndex = index,
                          !.passes = IF last.op = "click" /\ last.groupIndex = index
                                        /\ ~last.ok /\ last.passes < 3
                                     THEN last.passes + 1 ELSE 1,
                          !.ok = outcome.menu]
    /\ UNCHANGED <<worldVars, promptVars>>

\* the user clicks the toggle of the entry at `index`: the entry's handler
\* returns at once, the document's handler (2086-2089) schedules passes
ClickControl(index) ==
    /\ microtasks = <<>>
    /\ HandlersBound
    /\ registered.toggleHandler > 0
    /\ EngineCall(toggleClickHandler(itemClickHandler(Engine, index, TRUE).engine))

\* a second passes after the last counted click: the timer that click set
\* fires, if the closure it belongs to is still the bound one
ClickWindowEnds ==
    /\ microtasks = <<>>
    /\ last.op = "click"
    /\ SetEngine(IF clickTimer THEN resetClickState([Engine EXCEPT !.clickTimer = FALSE])
                 ELSE Engine)
    /\ last' = Call("clickWindowEnds")
    /\ UNCHANGED <<worldVars, promptVars>>

NextClicks ==
    \/ InitOnce
    \/ RunQueuedPass
    \/ DeliverMutations
    \/ \E kind \in TimerKinds : TimerFires(kind)
    \/ \E index \in ClickedIndices : ClickEntry(index)
    \/ \E index \in ClickedIndices : ClickControl(index)
    \/ ClickWindowEnds

SpecClicks == InitEngine /\ [][NextClicks]_vars

----------------------------------------------------------------------------
(* The engine after initPromptEntryGrouping while another script of the     *)
(* page changes the list: every pending timer is counted, every queued      *)
(* microtask runs and every pending timer fires.                            *)

\* the changes of the list by the page in one behaviour
MaxExternal == 2

\* a script of the page other than the prompt manager adds or removes an
\* entry, or renders the entries again without the wrappers; last keeps how
\* many such changes were made and whether the guard was set at that moment
ExternalMutation(ids) ==
    /\ microtasks = <<>>
    /\ Initialized /\ listNode # NoNode
    /\ last.passes < MaxExternal
    /\ ids # orderedIdentifiers \/ groupingUi # {}
    /\ orderedIdentifiers' = ids
    /\ SetEngine(ListMutation(Changed([Engine EXCEPT !.groupingUi = {}]),
                              IF groupingUi # {} THEN "ui" ELSE "items"))
    /\ last' = [Call("externalMutation") EXCEPT !.passes = last.passes + 1,
                                                 !.ok = isApplyingGrouping]
    /\ UNCHANGED <<worldVars, presetObj, settings, selected, nextId, tempMarks, menu, dialog>>

NextReconcile ==
    \/ InitOnce
    \/ RunQueuedPass
    \/ DeliverMutations
    \/ \E kind \in TimerKinds : TimerFires(kind)
    \/ \E ids \in RenderedOrders : ExternalMutation(ids)

\* SF_vars(TimerFires(kind)): a pending timer fires once it is due and the
\* microtask queue is empty.  ENABLED <<TimerFires(kind)>>_vars is written
\* as the state predicate it equals while timers are counted.
TimerRuns(kind) ==
    \/ <>[](~(microtasks = <<>> /\ timers[kind] > 0))
    \/ []<><<TimerFires(kind)>>_vars

\* every queued microtask runs before the next task and every pending timer
\* fires
SpecReconcile ==
    /\ InitRetry
    /\ [][NextReconcile]_vars
    /\ MicrotasksRun
    /\ \A kind \in TimerKinds \ {"guardReset"} : TimerRuns(kind)
    /\ SF_vars(TimerFires("guardReset"))

----------------------------------------------------------------------------
(* The buttons of the group headers (createGroupUI, 2296-2324).  A header   *)
(* keeps the groupIndex and the grouping it was built with; the groupings   *)
(* the last rebuilding pass read are those lastAppliedGroupingSignature was *)
(* computed from.                                                           *)

\* the name and the anchors of the grouping the header of groupIndex was
\* built with
HeaderGrouping(groupIndex) == lastAppliedGroupingSignature[3][groupIndex + 1]

\* the delete button of the header of groupIndex, confirmed (2316-2324)
HeaderDeleteButton(groupIndex) ==
    /\ microtasks = <<>>
    /\ groupIndex \in groupingUi
    /\ \E outcome \in {removePresetGrouping(presetObj, settings, selected, nextId, groupIndex,
                           orderedIdentifiers, "ok")} :
           /\ Apply(outcome)
           /\ last' = [Call("headerDelete") EXCEPT !.groupIndex = groupIndex,
                                                    !.ok = outcome.ok]
    /\ tempMarks' = NoMarks
    /\ SetEngine(SetTimeout(Changed(Engine), "postEdit"))
    /\ UNCHANGED <<worldVars, orderedIdentifiers, selected, menu, dialog>>

\* the edit button of the header of groupIndex and the name dialog confirmed
\* with newName (2297-2313)
HeaderEditButton(groupIndex, newName) ==
    /\ microtasks = <<>>
    /\ groupIndex \in groupingUi
    /\ newName # HeaderGrouping(groupIndex)[1]
    /\ \E outcome \in {updatePresetGrouping(presetObj, settings, selected, nextId, groupIndex,
                           HeaderGrouping(groupIndex)[2], HeaderGrouping(groupIndex)[3],
                           newName, orderedIdentifiers, "ok")} :
           /\ Apply(outcome)
           /\ last' = [Call("headerEdit") EXCEPT !.groupIndex = groupIndex,
                                                  !.ok = outcome.ok]
    /\ SetEngine(SetTimeout(Changed(Engine), "postEdit"))
    /\ UNCHANGED <<worldVars, orderedIdentifiers, selected, tempMarks, menu, dialog>>

\* the name dialog of the marking flow confirmed for the ungrouped entry p4
\* (handleMarkComplete, 2512-2520)
DialogAddsGroup ==
    /\ microtasks = <<>>
    /\ Initialized
    /\ nextId < MaxFresh
    /\ Len(RawGroupings(presetObj)) < MaxGroups
    /\ "p4" \notin getGroupedIdentifierSet(presetObj, orderedIdentifiers, nextId)
    /\ \E outcome \in {addPresetGrouping(presetObj, settings, selected, nextId,
                          "p4", "p4", "D", orderedIdentifiers, "ok")} :
           /\ Apply(outcome)
           /\ last' = [Call("dialogAdd") EXCEPT !.ok = outcome.ok]
    /\ tempMarks' = NoMarks
    /\ SetEngine(SetTimeout(Changed(Engine), "postEdit"))
    /\ UNCHANGED <<worldVars, orderedIdentifiers, selected, menu, dialog>>

\* the presets the headers are built from: one or two groups of one entry
InitPresetsHeaders ==
    { SetEntryGrouping(NoExtensions,
          <<[Blank EXCEPT !.id = 1, !.name = "A", !.mode = DEFAULT_MODE,
                          !.startIdentifier = "p1", !.endIdentifier = "p1"]>>),
      SetEntryGrouping(NoExtensions,
          <<[Blank EXCEPT !.id = 1, !.name = "A", !.mode = DEFAULT_MODE,
                          !.startIdentifier = "p1", !.endIdentifier = "p1"],
            [Blank EXCEPT !.id = 2, !.name = "B", !.mode = DEFAULT_MODE,
                          !.startIdentifier = "p2", !.endIdentifier = "p3"]>>) }

InitHeaders ==
    /\ worldbook = NoBook /\ worldNextId = 0
    /\ EngineLoaded
    /\ orderedIdentifiers = HostOrder
    /\ presetObj \in InitPresetsHeaders
    /\ selected = TRUE
    /\ settings = LiveSettingsOf(presetObj, selected)
    /\ nextId = 0
    /\ tempMarks = NoMarks
    /\ menu = NoMenu
    /\ dialog = NoDialog
    /\ last = Call("none")

NextHeaders ==
    \/ InitOnce
    \/ DeliverMutations
    \/ \E kind \in TimerKinds : TimerFires(kind)
    \/ \E i \in 0..MaxGroups : HeaderDeleteButton(i)
    \/ \E i \in 0..MaxGroups : HeaderEditButton(i, "R")
    \/ DialogAddsGroup

SpecHeaders == InitHeaders /\ [][NextHeaders]_vars

----------------------------------------------------------------------------
(* src/lib/prompt-entry-grouping.js (toggle-button part): the toggle-all    *)
(* button of a group header.  An entry of groupItems is given by the        *)
(* classes of its .prompt-manager-toggle-action element: "none" (it has no  *)
(* such element), "on", "off" (fa-toggle-off), "disabled" or "disabledOff". *)

\* the entries one header captures at most
MaxMembers == 3

ToggleClasses == {"none", "on", "off", "disabled", "disabledOff"}

\* $toggle.length
hasToggle(item) == item # "none"

\* !$toggle.hasClass('disabled') && !$toggle.hasClass('fa-toggle-off')
isEnabled(item) == item \notin {"disabled", "disabledOff"} /\ item \notin {"off", "disabledOff"}

\* the two counters of the forEach of updateButtonState (427-438), as
\* <<enabledCount, totalCount>>
RECURSIVE CountToggles(_)
CountToggles(groupItems) ==
    IF groupItems = <<>> THEN <<0, 0>>
    ELSE LET rest == CountToggles(Tail(groupItems))
             item == Head(groupItems)
         IN  IF hasToggle(item)
             THEN <<rest[1] + (IF isEnabled(item) THEN 1 ELSE 0), rest[2] + 1>>
             ELSE rest

\* a faulty variant of updateButtonState that never shows the mixed state
updateButtonState_NoMixed(btn) ==
    IF Len(btn.groupItems) = 0 THEN btn
    ELSE LET counts == CountToggles(btn.groupItems)
         IN  [btn EXCEPT !.state = IF counts[1] = 0 THEN "off" ELSE "on"]

\* updateButtonState (424-456): the data-state attribute of the button
updateButtonState(btn) ==
    IF Len(btn.groupItems) = 0 THEN btn
    ELSE LET counts == CountToggles(btn.groupItems)
         IN  [btn EXCEPT !.state = IF counts[1] = 0 THEN "off"
                                   ELSE IF counts[1] = counts[2] THEN "on"
                                   ELSE "mixed"]

\* addToggleAllButtonToGroupHeader (405-498) on a header without a button
addToggleAllButtonToGroupHeader(groupItems) ==
    updateButtonState([NoButton EXCEPT !.groupItems = groupItems])

\* the click handler up to its await (459-472): shouldEnable
shouldEnable(btn) == btn.state = "off" \/ btn.state = "mixed"

\* createGroupUI adds the button only for a wrapper that holds entries
\* (src/unnamed/part_000:2329-2330)
GroupItemLists == UNION {[1..n -> ToggleClasses] : n \in 1..MaxMembers}

InitToggle ==
    /\ worldbook = NoBook /\ worldNextId = 0
    /\ PassStateLoaded /\ timersCounted = FALSE /\ editor = NoEditor
    /\ orderedIdentifiers = HostOrder
    /\ presetObj = NoExtensions
    /\ selected = TRUE
    /\ settings = LiveSettingsOf(presetObj, selected)
    /\ nextId = 0
    /\ tempMarks = NoMarks
    /\ menu = NoMenu
    /\ dialog = NoDialog
    /\ toggleAll \in {addToggleAllButtonToGroupHeader(groupItems) : groupItems \in GroupItemLists}
    /\ last = Call("none")

\* a click on the button: a disabled button gets no click event; the handler
\* runs to `await onToggle(shouldEnable, groupItems)` (459-472)
ClickToggleAll ==
    /\ ~toggleAll.disabled
    /\ toggleAll' = IF Len(toggleAll.groupItems) = 0 THEN toggleAll
                    ELSE [toggleAll EXCEPT !.disabled = TRUE, !.running = TRUE]
    /\ last' = [Call("toggleAllClick") EXCEPT
                   !.decision = IF shouldEnable(toggleAll) THEN "enable" ELSE "disable"]
    /\ UNCHANGED <<worldVars, promptVars, passVars, editor>>

\* the host changes the classes of one captured entry: the effect of
\* toggleAllEntriesInGroup (505-538) on it, or the user's click on its toggle
HostSetsToggle(i, class) ==
    /\ i \in 1..Len(toggleAll.groupItems)
    /\ toggleAll.groupItems[i] # "none" /\ class # "none"
    /\ toggleAll.groupItems[i] # class
    /\ toggleAll' = [toggleAll EXCEPT !.groupItems[i] = class]
    /\ last' = Call("hostSetsToggle")
    /\ UNCHANGED <<worldVars, promptVars, passVars, editor>>

\* onToggle resolves: updateButtonState, then the finally block (475, 481-483)
ToggleResolves ==
    /\ toggleAll.running
    /\ toggleAll' = [updateButtonState(toggleAll) EXCEPT !.disabled = FALSE, !.running = FALSE]
    /\ last' = [Call("toggleAllDone") EXCEPT !.ok = TRUE]
    /\ UNCHANGED <<worldVars, promptVars, passVars, editor>>

\* onToggle rejects: the catch block, then the finally block (476-483)
ToggleRejects ==
    /\ toggleAll.running
    /\ toggleAll' = [toggleAll EXCEPT !.disabled = FALSE, !.running = FALSE]
    /\ last' = [Call("toggleAllDone") EXCEPT !.threw = TRUE]
    /\ UNCHANGED <<worldVars, promptVars, passVars, editor>>

NextToggle ==
    \/ ClickToggleAll
    \/ \E i \in 1..MaxMembers, class \in ToggleClasses : HostSetsToggle(i, class)
    \/ ToggleResolves
    \/ ToggleRejects

SpecToggle == InitToggle /\ [][NextToggle]_vars

----------------------------------------------------------------------------
(* src/unnamed/part_000 (world-info editor, lines 365-1010 and 1316-1472):  *)
(* the handlers that set currentWorldName and currentWorldData, the         *)
(* refresh of the grouped view and the context menu of an entry.  The host  *)
(* has two world-books; loadWorldInfo is awaited, so a handler stops at its *)
(* await and its continuation runs when the load completes; loads complete  *)
(* in any order.  The view is the list of group containers refreshGroupedView *)
(* builds, each with the entries it moved into it.                          *)

\* the handlers, loads and menu clicks explored in one behaviour
MaxEditorEvents == 3

\* the names of the host's world-books
Worlds == {"W1", "W2"}

\* Object.keys(worldData.entries) of the host's world-books, as numbers
HostEntries == [w \in Worlds |-> IF w = "W1" THEN {1, 2} ELSE {2, 3}]

\* what loadWorldInfo(name) resolves to
loadWorldInfo(name) == [of |-> name, uids |-> HostEntries[name]]

\* the stored world-books: W1 has the group 1 with entry 1, W2 the group 2
\* with entry 3
InitWorldbooks ==
    [w \in Worlds |->
        IF w = "W1"
        THEN [exists |-> TRUE, hasOrder |-> TRUE, groupOrder |-> <<1>>,
              groups |-> <<[StoredGroup(1) EXCEPT !.entries = <<1>>]>>]
        ELSE [exists |-> TRUE, hasOrder |-> TRUE, groupOrder |-> <<2>>,
              groups |-> <<[StoredGroup(2) EXCEPT !.entries = <<3>>]>>]]

\* the group containers refreshGroupedView builds for a world-book (675-721):
\* one for each id of the group order, holding the entries of the group that
\* have an element in the list
Containers(book, elements) ==
    [k \in 1..Len(book.groupOrder) |->
        <<book.groupOrder[k],
          SelectSeq(EntriesOf(book.groups, book.groupOrder[k]), LAMBDA uid : uid \in elements)>>]

\* refreshGroupedView (631-748): the editor after the call.  The list holds
\* the entries of the world-book the host's select shows.
refreshGroupedView(ed) ==
    IF ed.isRefreshing THEN ed
    ELSE IF ed.currentWorldName = NoWorld \/ ed.currentWorldData = NoData THEN ed
    ELSE
        LET cleaned == cleanOrphanedReferences(ed.worldbooks[ed.currentWorldName],
                                               ed.currentWorldData.uids).book
            ordered == getGroupOrder(cleaned)
        IN  [ed EXCEPT !.isRefreshing = TRUE,
                       !.worldbooks[ed.currentWorldName] = ordered,
                       !.view = Containers(ordered, HostEntries[ed.selected]),
                       !.timers.reset = @ + 1]

\* a handler reaches `await loadWorldInfo(name)`
AwaitLoad(ed, handler, name) ==
    [ed EXCEPT !.loads = Append(@, [handler |-> handler, name |-> name])]

\* the step of a handler or a callback of the editor
EditorStep(op, ed, ok) ==
    /\ editor' = ed
    /\ last' = [Call(op) EXCEPT !.ok = ok]
    /\ UNCHANGED <<worldVars, promptVars, passVars, toggleAll>>

InitEditor ==
    /\ worldbook = NoBook /\ worldNextId = 0
    /\ PassStateLoaded /\ timersCounted = FALSE /\ toggleAll = NoButton
    /\ editor = [NoEditor EXCEPT !.selected = "W1", !.worldbooks = InitWorldbooks]
    /\ orderedIdentifiers = HostOrder
    /\ presetObj = NoExtensions
    /\ selected = TRUE
    /\ settings = LiveSettingsOf(presetObj, selected)
    /\ nextId = 0
    /\ tempMarks = NoMarks
    /\ menu = NoMenu
    /\ dialog = NoDialog
    /\ last = Call("none")

\* the user selects a world-book: the change handler of #world_editor_select
\* up to its await (1362-1371)
SelectWorld(name) ==
    /\ editor.events < MaxEditorEvents
    /\ name # editor.selected
    /\ EditorStep("selectWorld",
                  AwaitLoad([editor EXCEPT !.selected = name, !.currentWorldName = name,
                                           !.events = @ + 1], "change", name),
                  TRUE)

\* the world popup is shown: onWorldEditorOpen up to its await (1451-1461)
WorldEditorOpen ==
    /\ editor.events < MaxEditorEvents
    /\ EditorStep("worldEditorOpen",
                  AwaitLoad([editor EXCEPT !.currentWorldName = editor.selected,
                                           !.events = @ + 1], "open", editor.selected),
                  TRUE)

\* the host emits WORLDINFO_UPDATED: the handler up to its await (1322-1327)
WorldInfoUpdated ==
    /\ editor.events < MaxEditorEvents
    /\ \E reloads \in {editor.currentWorldName # NoWorld /\ editor.currentWorldData # NoData} :
           EditorStep("worldInfoUpdated",
                      IF reloads
                      THEN AwaitLoad([editor EXCEPT !.events = @ + 1], "updated",
                                     editor.currentWorldName)
                      ELSE [editor EXCEPT !.events = @ + 1],
                      reloads)

\* the host emits WORLDINFO_ENTRIES_LOADED (1333-1338)
EntriesLoaded ==
    /\ editor.events < MaxEditorEvents
    /\ EditorStep("entriesLoaded",
                  IF editor.currentWorldName # NoWorld
                  THEN [editor EXCEPT !.events = @ + 1, !.timers.refresh = @ + 1]
                  ELSE [editor EXCEPT !.events = @ + 1],
                  editor.currentWorldName # NoWorld)

\* a load completes and its handler goes on: the update handler refreshes at
\* once (1327-1328), the two others set the 300 ms timer (1371-1379, 1461-1470)
LoadCompletes(i) ==
    /\ i \in 1..Len(editor.loads)
    /\ \E ed \in {[editor EXCEPT !.currentWorldData = loadWorldInfo(editor.loads[i].name),
                                 !.loads = RemoveAt(@, i - 1)]} :
           EditorStep("loadCompletes",
                      IF editor.loads[i].handler = "updated" THEN refreshGroupedView(ed)
                      ELSE [ed EXCEPT !.timers.refresh = @ + 1],
                      TRUE)

\* a timer set for refreshGroupedView fires (1336, 1379, 1470)
RefreshTimerFires ==
    /\ editor.timers.refresh > 0
    /\ EditorStep("refreshTimer",
                  refreshGroupedView([editor EXCEPT !.timers.refresh = @ - 1]),
                  ~editor.isRefreshing)

\* the timer of the finally block of refreshGroupedView fires (740-746)
ResetTimerFires ==
    /\ editor.timers.reset > 0
    /\ EditorStep("resetTimer",
                  [editor EXCEPT !.timers.reset = @ - 1, !.isRefreshing = FALSE],
                  TRUE)

\* the ids the context menu offers: showContextMenu (925-950)
MenuGroupIds == Elements(getGroupOrder(editor.worldbooks[editor.currentWorldName]).groupOrder)

\* the user picks a group in the context menu of an entry of the list
\* (986-995)
MenuAdd(groupId, uid) ==
    /\ editor.events < MaxEditorEvents
    /\ editor.currentWorldName # NoWorld
    /\ uid \in HostEntries[editor.selected]
    /\ groupId \in MenuGroupIds
    /\ \E outcome \in {addEntryToGroup(editor.worldbooks[editor.currentWorldName], groupId, uid)} :
           EditorStep("menuAdd",
                      refreshGroupedView([editor EXCEPT
                          !.worldbooks[editor.currentWorldName] = outcome.book,
                          !.events = @ + 1]),
                      outcome.ok)

\* the user picks "remove from group" in the context menu of an entry that is
\* in a group (952-959, 996-998)
MenuRemove(uid) ==
    /\ editor.events < MaxEditorEvents
    /\ editor.currentWorldName # NoWorld
    /\ uid \in HostEntries[editor.selected]
    /\ \E outcome \in {removeEntryFromGroup(editor.worldbooks[editor.currentWorldName], uid)} :
           /\ outcome.ok
           /\ EditorStep("menuRemove",
                         refreshGroupedView([editor EXCEPT
                             !.worldbooks[editor.currentWorldName] = outcome.book,
                             !.events = @ + 1]),
                         outcome.ok)

NextEditor ==
    \/ \E name \in Worlds : SelectWorld(name)
    \/ WorldEditorOpen
    \/ WorldInfoUpdated
    \/ EntriesLoaded
    \/ \E i \in 1..MaxEditorEvents : LoadCompletes(i)
    \/ RefreshTimerFires
    \/ ResetTimerFires
    \/ \E groupId \in {1, 2}, uid \in {1, 2, 3} : MenuAdd(groupId, uid)
    \/ \E uid \in {1, 2, 3} : MenuRemove(uid)

\* every pending timer fires and every load completes
SpecEditor ==
    /\ InitEditor
    /\ [][NextEditor]_vars
    /\ WF_vars(RefreshTimerFires)
    /\ WF_vars(ResetTimerFires)
    /\ \A i \in 1..MaxEditorEvents : WF_vars(LoadCompletes(i))

----------------------------------------------------------------------------
\* the stored array and what a read of it returns, in the current state
Stored == RawGroupings(presetObj)
ReadNow == getAllPresetGroupings(presetObj, orderedIdentifiers, nextId)
ReadNext == getAllPresetGroupings(presetObj', orderedIdentifiers', nextId')

\* the stored array is the single record add("p2", "p3", "Intro") writes
OnlyIntro ==
    /\ Len(Stored) = 1
    /\ Stored[1].startIdentifier = "p2" /\ Stored[1].endIdentifier = "p3"
    /\ Stored[1].name = "Intro"

\* C1: with entries [p1,p2,p3,p4] and the one group add(p2,p3,"Intro") made, a
\* read returns exactly one resolved record with anchors p2 and p3; once the
\* host has removed p2, the read against [p1,p3,p4] returns that record with
\* unresolved: true and the pass counts exactly 1 unresolved group.
C1_DeletedAnchorIsUnresolved ==
    /\ (OnlyIntro /\ orderedIdentifiers = HostOrder) =>
           /\ Len(ReadNow) = 1
           /\ ~ReadNow[1].unresolved
           /\ ReadNow[1].startIdentifier = "p2" /\ ReadNow[1].endIdentifier = "p3"
    /\ (OnlyIntro /\ last.op = "hostRemove" /\ last.identifier = "p2"
            /\ orderedIdentifiers = <<"p1", "p3", "p4">>) =>
           /\ Len(ReadNow) = 1
           /\ ReadNow[1].unresolved
           /\ unresolvedCount(ReadNow) = 1

\* C2: every record that write-normalization stores as unresolved with its two
\* legacy indices is returned by the next read against the same keys, still
\* unresolved, with the same legacy indices and with no anchor added.
C2_UnresolvedSurvivesWriteThenRead ==
    LET written == getWritableGroupings(Stored, orderedIdentifiers, nextId)
        readBack == ReadList(written, orderedIdentifiers, nextId)
    IN  \A i \in 1..Len(written) :
            (written[i].unresolved /\ written[i].legacyStartIndex # NoNum
                                  /\ written[i].legacyEndIndex # NoNum)
            => \E j \in 1..Len(readBack) :
                   /\ readBack[j].id = written[i].id
                   /\ readBack[j].unresolved
                   /\ readBack[j].legacyStartIndex = written[i].legacyStartIndex
                   /\ readBack[j].legacyEndIndex = written[i].legacyEndIndex
                   /\ readBack[j].startIdentifier = written[i].startIdentifier
                   /\ readBack[j].endIdentifier = written[i].endIdentifier

\* C3: the number of records a read returns goes up by one on a successful
\* add, down by one on a successful remove, and stays as it is on a successful
\* update, on a failed operation and on a change of the key list.
C3_CountChangesOnlyByAddAndRemove ==
    [][ /\ (last'.op = "add" /\ last'.ok) => Len(ReadNext) = Len(ReadNow) + 1
        /\ (last'.op = "remove" /\ last'.ok) => Len(ReadNext) = Len(ReadNow) - 1
        /\ (last'.op = "update" /\ last'.ok) => Len(ReadNext) = Len(ReadNow)
        /\ (last'.op \in {"add", "update", "remove"} /\ ~last'.ok)
               => Len(ReadNext) = Len(ReadNow)
        /\ (last'.op \in {"hostRemove", "hostRestore"}) => Len(ReadNext) = Len(ReadNow)
      ]_vars

\* a stored record has both anchors as strings, or is flagged unresolved
SelfConsistent(record) ==
    \/ record.startIdentifier # NoStr /\ record.endIdentifier # NoStr
    \/ record.unresolved

\* C4: every record of the list that add, update or remove has written has
\* both anchors as strings or carries unresolved: true.
C4_WrittenRecordsSelfConsistent ==
    (last.op \in {"add", "update", "remove"} /\ last.saves = 1)
    => \A i \in 1..Len(Stored) : SelfConsistent(Stored[i])

\* a stored entry that is a resolved group record for the key list: anchor
\* based, not flagged unresolved, both anchors keys of the list
ResolvedIn(entry, ids) ==
    /\ entry.plain /\ ~entry.unresolved
    /\ entry.startIndex = NoNum /\ entry.endIndex = NoNum
    /\ indexOf(ids, entry.startIdentifier) # -1
    /\ indexOf(ids, entry.endIdentifier) # -1

AllResolved == \A i \in 1..Len(Stored) : ResolvedIn(Stored[i], orderedIdentifiers)

\* C5: when every stored record is resolved for the key list, reading back the
\* write-normalized list gives as many records in the same order, each with
\* the name, anchors and mode of its original (as the code reads name and
\* mode) and with the original's id when it had one.
C5_ResolvedRoundTrip ==
    AllResolved =>
        LET written == getWritableGroupings(Stored, orderedIdentifiers, nextId)
            readBack == ReadList(written, orderedIdentifiers, nextId)
        IN  /\ Len(readBack) = Len(Stored)
            /\ \A i \in 1..Len(Stored) :
                   /\ readBack[i].name = readGroupName(Stored[i])
                   /\ readBack[i].startIdentifier = Stored[i].startIdentifier
                   /\ readBack[i].endIdentifier = Stored[i].endIdentifier
                   /\ readBack[i].mode = ModeOf(Stored[i])
                   /\ ~readBack[i].unresolved
                   /\ Stored[i].id # NoId => readBack[i].id = Stored[i].id

\* C5 witness: two resolved records, one written by add, one that came with a
\* mode and an id of its own or with none
C5_Witness == AllResolved /\ Len(Stored) = 2 /\ last.op = "add" /\ last.ok

\* a legacy positional entry {startIndex: i, endIndex: j}
LegacyEntry(i, j) == [Blank EXCEPT !.startIndex = i, !.endIndex = j]

\* whether position i (0-based) of the key list holds a key
HoldsKey(ids, i) == i >= 0 /\ i < Len(ids)

\* what C6 says a read of the entry against the key list returns
ReadAsC6Says(entry, ids, r) ==
    IF entry.plain /\ entry.startIndex # NoNum /\ entry.endIndex # NoNum
    THEN /\ Len(r) = 1
         /\ IF HoldsKey(ids, entry.startIndex) /\ HoldsKey(ids, entry.endIndex)
            THEN /\ ~r[1].unresolved
                 /\ r[1].startIdentifier = ids[entry.startIndex + 1]
                 /\ r[1].endIdentifier = ids[entry.endIndex + 1]
            ELSE /\ r[1].unresolved
                 /\ r[1].legacyStartIndex = entry.startIndex
                 /\ r[1].legacyEndIndex = entry.endIndex
                 /\ r[1].startIdentifier = NoStr /\ r[1].endIdentifier = NoStr
    ELSE IF entry.plain /\ (entry.startIdentifier # NoStr \/ entry.endIdentifier # NoStr)
    THEN Len(r) = 1
    ELSE r = <<>>

\* C6: a legacy positional record {startIndex: i, endIndex: j} is read as the
\* resolved record with anchors K[i], K[j] when both positions hold keys, and
\* otherwise as unresolved with legacy indices i, j and no anchors; an entry
\* that is neither positional nor anchor-based is dropped.  Stated of every
\* stored entry and of every pair of indices from -1 to the length of the
\* host's list.
C6_LegacyRead ==
    /\ \A k \in 1..Len(Stored) :
           ReadAsC6Says(Stored[k], orderedIdentifiers,
                        normalizeForRead(Stored[k], orderedIdentifiers, nextId))
    /\ \A i \in -1..Len(HostOrder), j \in -1..Len(HostOrder) :
           ReadAsC6Says(LegacyEntry(i, j), orderedIdentifiers,
                        normalizeForRead(LegacyEntry(i, j), orderedIdentifiers, nextId))
    /\ Len(ReadNow) = Cardinality({k \in 1..Len(Stored) :
                           /\ Stored[k].plain
                           /\ \/ Stored[k].startIndex # NoNum /\ Stored[k].endIndex # NoNum
                              \/ Stored[k].startIdentifier # NoStr
                              \/ Stored[k].endIdentifier # NoStr})

\* C6 witness: the stored legacy record {startIndex: 1, endIndex: 3} after the
\* host removed an entry, so that position 3 holds no key
C6_Witness ==
    /\ \E k \in 1..Len(Stored) : Stored[k].startIndex = 1 /\ Stored[k].endIndex = 3
    /\ Len(orderedIdentifiers) = 3
    /\ last.op = "hostRemove"

\* C7: update and remove called with groupIndex -1 or with the length of the
\* write-normalized list return false, call savePreset not at all, and leave
\* the preset object and the live settings as they were.
C7_BadIndexChangesNothing ==
    [][ (/\ last'.op \in {"update", "remove"}
         /\ last'.groupIndex \in
                {-1, Len(getWritableGroupings(Stored, orderedIdentifiers, nextId))})
        => /\ ~last'.ok
           /\ last'.saves = 0
           /\ presetObj' = presetObj
           /\ settings' = settings
      ]_vars

\* the ids of the records of a list
IdsOf(groupings) == {groupings[k].id : k \in 1..Len(groupings)}

\* C8: add with an anchor that is no string returns false, saves nothing and
\* leaves the preset and the live settings unchanged; add with two string
\* anchors on a preset the host returns appends exactly one record with both
\* anchors and a new id to the write-normalized list and calls savePreset once
\* with skipUpdate set.
C8_AddValidatesAndAppends ==
    [][ last'.op = "add" =>
        \A a \in AddArguments, host \in HostBehaviours :
          Add(a[1], a[2], a[3], host) =>
            IF a[1] = NoStr \/ a[2] = NoStr
            THEN /\ ~last'.ok
                 /\ last'.saves = 0
                 /\ presetObj' = presetObj
                 /\ settings' = settings
            ELSE host # "unavailable" =>
                 LET before == getWritableGroupings(Stored, orderedIdentifiers, nextId)
                     after == RawGroupings(presetObj')
                 IN  /\ Len(after) = Len(before) + 1
                     /\ SubSeq(after, 1, Len(before)) = before
                     /\ after[Len(after)].startIdentifier = a[1]
                     /\ after[Len(after)].endIdentifier = a[2]
                     /\ ~after[Len(after)].unresolved
                     /\ after[Len(after)].id # NoId
                     /\ after[Len(after)].id \notin IdsOf(before)
                     /\ last'.saves = 1
                     /\ last'.skipUpdate
      ]_vars

\* C8 witness: add was refused for an anchor that is no string while the
\* preset held a group
C8_Witness ==
    /\ last.op = "add" /\ last.decision = "nonStringAnchor" /\ ~last.ok
    /\ Len(Stored) >= 1

MarkedSpanOverlaps ==
    LET ids == dialog.orderedIdentifiers
        startIndex == indexOf(ids, tempMarks.start)
        endIndex == indexOf(ids, tempMarks.end)
    IN  /\ tempMarks.start # NoStr /\ tempMarks.end # NoStr
        /\ startIndex # -1 /\ endIndex # -1
        /\ \E k \in Min(startIndex, endIndex)..Max(startIndex, endIndex) :
               ids[k + 1] \in getGroupedIdentifierSet(presetObj, ids, nextId)

\* C10: when the name dialog is confirmed with both marks set and the span of
\* the marks holds an entry of an existing resolved group, addPresetGrouping
\* is not called and the stored records stay as they are.
C10_OverlapRejected ==
    [][ (last'.op = "confirm" /\ dialog.open /\ MarkedSpanOverlaps)
        => /\ ~last'.addCalled
           /\ presetObj' = presetObj
           /\ settings' = settings
      ]_vars

\* C10 witness: the marks p1 and p4, neither in a group, around a group:
\* the confirm was refused for overlap
C10_Witness ==
    /\ last.op = "confirm" /\ last.decision = "overlap"
    /\ last.startIdentifier = "p1" /\ last.endIdentifier = "p4"
    /\ Len(Stored) >= 1

\* C11: in the prompt-entry view no entry identifier lies in the resolved
\* span of two different groups, whatever groups the marking flow has created
\* and however the host has removed and brought back entries.
C11_NoEntryInTwoGroups ==
    \A i \in 1..Len(ReadNow), j \in 1..Len(ReadNow) :
        i # j => GroupSpan(ReadNow[i], orderedIdentifiers)
                   \cap GroupSpan(ReadNow[j], orderedIdentifiers) = {}

\* C14: after a successful add, update or remove on the preset that is
\* selected in the host, the live settings' extensions.entryGrouping is the
\* preset object's; when the preset is not the selected one the live settings
\* are as they were.
C14_LiveSettingsMirror ==
    [][ (last'.op \in {"add", "update", "remove"} /\ last'.ok) =>
          IF selected
          THEN /\ presetObj'.hasExtensions /\ presetObj'.hasEntryGrouping
               /\ settings'.hasExtensions /\ settings'.hasEntryGrouping
               /\ settings'.entryGrouping = presetObj'.entryGrouping
          ELSE settings' = settings
      ]_vars

\* C14 witness: a successful update of a group of the selected preset, mirrored
C14_Witness ==
    /\ last.op = "update" /\ last.ok /\ selected
    /\ Len(Stored) >= 1
    /\ settings.entryGrouping = Stored

\* the positions (1-based) at which an array holds an id
PositionsOf(array, id) == {i \in 1..Len(array) : array[i] = id}

\* the position of the first occurrence of an id an array holds
FirstPosition(array, id) == CHOOSE i \in PositionsOf(array, id) : \A j \in PositionsOf(array, id) : i <= j

\* C20: for every stored world-book, with a groupOrder that holds stale ids,
\* misses ids or repeats an id, getGroupOrder returns each existing group id
\* exactly once and nothing else, keeps the relative order of the ids already
\* listed, and places the ids that were missing at the end.
C20_GroupOrderIsExactlyTheGroups ==
    LET before == getWorldGroups(worldbook)
        listed == Elements(before.groupOrder)
        result == getGroupOrder(worldbook).groupOrder
    IN  /\ \A id \in Elements(result) : HasGroup(before.groups, id)
        /\ \A id \in Elements(GroupKeys(before.groups)) :
               Cardinality(PositionsOf(result, id)) = 1
        /\ \A a \in Elements(result) \cap listed, b \in Elements(result) \cap listed :
               FirstPosition(before.groupOrder, a) < FirstPosition(before.groupOrder, b)
               => FirstPosition(result, a) < FirstPosition(result, b)
        /\ \A a \in Elements(result) \cap listed, b \in Elements(result) \ listed :
               FirstPosition(result, a) < FirstPosition(result, b)

\* the groups the stored array resolves to on the entries the list holds
ResolvedNow == resolvedGroupings(ReadNow, orderedIdentifiers)

\* C12: with at least one group that resolves, a pass that finds no grouping
\* UI builds a header and a wrapper for every resolved group, and a pass that
\* follows another with no change in between to the stored groups, the
\* entries or the list element removes and creates no header or wrapper and
\* leaves those of every resolved group in place.
C12_SecondPassSkips ==
    (lastPass.ran /\ ResolvedNow # {}) =>
        /\ lastPass.uiBefore = {} => (lastPass.rebuilt /\ lastPass.uiAfter = ResolvedNow)
        /\ lastPass.repeat => (~lastPass.rebuilt /\ lastPass.uiAfter = ResolvedNow)

\* a second pass has run with nothing changed since the first and has left
\* the wrappers alone
C12_Witness ==
    /\ lastPass.ran /\ lastPass.repeat /\ ~lastPass.rebuilt
    /\ ResolvedNow # {} /\ groupingUi = ResolvedNow

\* the step in which the browser notifies the observers
DeliverStep ==
    /\ microtasks # <<>> /\ Head(microtasks) = "observers"
    /\ \A i \in 1..Len(microtasks') : microtasks'[i] # "observers"

\* a pass is scheduled: the debounced timer is set or the microtask is queued
PassScheduled == applyGroupingTimer \/ applyGroupingQueued

\* C13: the records of a pass's own header and wrapper changes are queued
\* only while isApplyingGrouping is set, and a notification of the observers
\* while it is set schedules nothing; a notification while it is clear, with
\* the engine on, of a change the page made to the list leaves a pass
\* scheduled.
C13_OwnMutationsIgnored ==
    [][ /\ ("own" \in records'.list) => isApplyingGrouping'
        /\ (DeliverStep /\ isApplyingGrouping) =>
               /\ applyGroupingTimer' = applyGroupingTimer
               /\ applyGroupingQueued' = applyGroupingQueued
               /\ timers' = timers
               /\ microtasks' = Tail(microtasks)
        /\ (DeliverStep /\ ~isApplyingGrouping /\ entryGroupingEnabled
               /\ records.list \cap {"items", "ui"} # {}) =>
               PassScheduled' ]_vars

\* the records of a rebuild have been delivered to the connected list
\* observer while the guard is still set, and no pass is scheduled
C13_Witness ==
    /\ isApplyingGrouping /\ lastPass.ran /\ lastPass.rebuilt /\ groupingUi # {}
    /\ listObserver /\ observedListNode = listNode
    /\ microtasks = <<>> /\ records = NoRecords
    /\ ~PassScheduled /\ timers["reapply"] = 0

\* C15: however often initPromptEntryGrouping is called, and whether or not
\* the list element exists, at most one list observer, panel observer, theme
\* observer, settings-updated handler, toggle click handler and
\* PromptManager hook are active.
C15_NothingRegisteredTwice ==
    /\ registered.listObserver <= 1
    /\ registered.panelObserver <= 1
    /\ registered.themeObserver <= 1
    /\ registered.settingsHandler <= 1
    /\ registered.toggleHandler <= 1
    /\ registered.promptManagerHook <= 1

\* initPromptEntryGrouping was called on the initialized engine, with the
\* list element in place
C15_Witness ==
    /\ last.op = "init" /\ last.decision = "again"
    /\ registered.listObserver = 1 /\ registered.panelObserver = 1
    /\ registered.themeObserver = 1 /\ registered.settingsHandler = 1
    /\ registered.toggleHandler = 1 /\ registered.promptManagerHook = 1

\* C16: from destroyPromptEntryGrouping until the next
\* initPromptEntryGrouping the list holds no header and no wrapper, whatever
\* state the engine was in and whatever runs afterwards; and in every state
\* a second destroy right after a first changes nothing.
C16_DestroyLeavesNoUi ==
    /\ ~entryGroupingEnabled => groupingUi = {}
    /\ destroyPromptEntryGrouping(destroyPromptEntryGrouping(Engine))
           = destroyPromptEntryGrouping(Engine)

\* destroyPromptEntryGrouping was called with a microtask pass queued, and
\* that pass has run since
C16_Witness ==
    /\ ~entryGroupingEnabled /\ last.op = "destroy"
    /\ ResolvedNow # {} /\ listNode # NoNode
    /\ listObserver /\ microtasks = <<>>

\* the step in which destroyPromptEntryGrouping runs
DestroyStep ==
    /\ last'.op = "destroy"
    /\ SetEngine(IF groupingUi # {} THEN Changed(destroyPromptEntryGrouping(Engine))
                 ELSE destroyPromptEntryGrouping(Engine))

\* the timers the engine sets to run a pass or to attach the list observer
PassTimers == {"debounced", "reapply", "themeBurst", "observerRetry", "postEdit"}

\* C17: when destroyPromptEntryGrouping returns, none of the timers the
\* engine set to run a pass or to attach the list observer is pending: not
\* the debounced one, a follow-up or retry, one of the theme burst, the
\* observer's retry, or one set after an edit.
C17_NoTimerAfterDestroy ==
    [][ DestroyStep => \A kind \in PassTimers : timers'[kind] = 0 ]_vars

\* C18: from destroyPromptEntryGrouping until the next
\* initPromptEntryGrouping no list observer and no panel observer is
\* connected.
C18_ObserversStayDisconnected ==
    ~entryGroupingEnabled =>
        /\ registered.listObserver = 0 /\ ~listObserver
        /\ registered.panelObserver = 0 /\ ~panelObserver

\* C19: when destroyPromptEntryGrouping returns, the flags, counters and
\* caches of the module have their initial values.
C19_DestroyResetsModuleState ==
    [][ DestroyStep =>
          /\ ~isApplyingGrouping' /\ ~applyGroupingQueued' /\ ~applyGroupingTimer'
          /\ lastAppliedGroupingSignature' = NoSignature
          /\ lastAppliedGroupingPreset' = NoStr
          /\ lastAppliedGroupingListNode' = NoNode
          /\ observedListNode' = NoNode /\ ~observedPanelNode'
          /\ zeroResolvedRetryPreset' = NoStr
          /\ zeroResolvedRetryCount' = 0
          /\ tempMarks' = NoMarks ]_vars

\* the calls of the world-info store that change entries only
EntryOps == {"addEntryToGroup", "removeEntryFromGroup", "setGroupEntries",
             "cleanOrphanedReferences"}

\* C21: removeEntryFromGroup, addEntryToGroup, setGroupEntries and
\* cleanOrphanedReferences delete no group: every group the world-book had
\* before the call it has after it, also one the call left without entries,
\* and getGroupOrder then returns its id.
C21_EmptyGroupStays ==
    [][ last'.op \in EntryOps =>
          \A id \in Elements(GroupKeys(worldbook.groups)) :
              /\ HasGroup(worldbook'.groups, id)
              /\ id \in Elements(getGroupOrder(worldbook').groupOrder) ]_vars

\* removeEntryFromGroup took the last entry of a group, which is still there
C21_Witness ==
    /\ last.op = "removeEntryFromGroup" /\ last.ok
    /\ HasGroup(worldbook.groups, last.groupIndex)
    /\ EntriesOf(worldbook.groups, last.groupIndex) = <<>>
    /\ last.groupIndex \in Elements(getGroupOrder(worldbook).groupOrder)

\* C22: addPresetGrouping, updatePresetGrouping, removePresetGrouping and
\* getAllPresetGroupings never throw to their caller when a host call throws,
\* rejects or is unavailable: the mutators resolve to false and the reader
\* returns an empty list.
C22_HostFailuresAreCaught ==
    /\ last.op \in {"add", "update", "remove", "read"} => ~last.threw
    /\ last.op \in {"add", "update", "remove"} /\ last.decision # "none" => ~last.ok
    /\ last.op = "read" /\ last.decision # "none" => last.saves = 0

\* savePreset has rejected inside a mutator that had a valid target, and the
\* call returned false
C22_Witness ==
    /\ last.op = "remove" /\ last.decision = "savePresetRejects"
    /\ last.saves = 1 /\ ~last.ok /\ ~last.threw

\* both anchors of g are strings present in the ordered identifiers and g is
\* not flagged unresolved
AnchorsPresent(g) ==
    /\ ~g.unresolved
    /\ g.startIdentifier # NoStr /\ PositionsOf(orderedIdentifiers, g.startIdentifier) # {}
    /\ g.endIdentifier # NoStr /\ PositionsOf(orderedIdentifiers, g.endIdentifier) # {}

\* the identifiers that lie between the two anchors of g, anchors included
Between(g) ==
    {orderedIdentifiers[i] : i \in
        {i \in 1..Len(orderedIdentifiers) :
            \E a \in PositionsOf(orderedIdentifiers, g.startIdentifier), b \in PositionsOf(orderedIdentifiers, g.endIdentifier) :
                (a <= i /\ i <= b) \/ (b <= i /\ i <= a)}}

\* g with its two anchors exchanged
Exchanged(g) ==
    [g EXCEPT !.startIdentifier = g.endIdentifier, !.endIdentifier = g.startIdentifier]

\* C23: a group's resolved span is the inclusive index range between the
\* positions of its two anchors in the ordered identifiers and is the same
\* whichever anchor is stored as start; a group with an anchor absent from the
\* ordered identifiers, or flagged unresolved, contributes no span: it is not
\* among the groups that get a wrapper and adds nothing to the set of grouped
\* identifiers.
C23_SpanBetweenAnchors ==
    /\ \A i \in 1..Len(ReadNow) :
          LET g == ReadNow[i]
          IN  IF AnchorsPresent(g)
              THEN /\ GroupSpan(g, orderedIdentifiers) = Between(g)
                   /\ GroupSpan(Exchanged(g), orderedIdentifiers) = Between(g)
                   /\ (i - 1) \in ResolvedNow
              ELSE /\ GroupSpan(g, orderedIdentifiers) = {}
                   /\ (i - 1) \notin ResolvedNow
    /\ getGroupedIdentifierSet(presetObj, orderedIdentifiers, nextId) =
          UNION {Between(ReadNow[i]) : i \in {j \in 1..Len(ReadNow) : AnchorsPresent(ReadNow[j])}}

\* a group whose end anchor precedes its start anchor covers both, beside a
\* group whose anchor the host has deleted
C23_Witness ==
    /\ \E i \in 1..Len(ReadNow) :
          /\ AnchorsPresent(ReadNow[i])
          /\ indexOf(orderedIdentifiers, ReadNow[i].startIdentifier)
                > indexOf(orderedIdentifiers, ReadNow[i].endIdentifier)
          /\ Cardinality(GroupSpan(ReadNow[i], orderedIdentifiers)) = 2
    /\ \E i \in 1..Len(ReadNow) :
          /\ ~AnchorsPresent(ReadNow[i])
          /\ GroupSpan(ReadNow[i], orderedIdentifiers) = {}


\* a step in which applyGroupingToList runs: the queued microtask, the
\* debounced timer or the timer set after an edit
PassStep == RunQueuedPass \/ TimerFires("debounced") \/ TimerFires("postEdit")

\* C24: when the list holds the same identifier on two entries, a pass creates
\* no wrapper or header, removes none, and leaves the last-applied signature,
\* preset and list node unchanged.
C24_DuplicatesAbortPass ==
    [][ HasDuplicates(orderedIdentifiers) /\ entryGroupingEnabled /\ listNode # NoNode
        /\ PassStep
        => /\ isApplyingGrouping'
           /\ groupingUi' = groupingUi
           /\ ~lastPass'.rebuilt
           /\ lastAppliedGroupingSignature' = lastAppliedGroupingSignature
           /\ lastAppliedGroupingPreset' = lastAppliedGroupingPreset
           /\ lastAppliedGroupingListNode' = lastAppliedGroupingListNode ]_vars

\* a pass has run on a list that holds an identifier twice and a header and
\* wrapper built before
C24_Witness ==
    /\ HasDuplicates(orderedIdentifiers)
    /\ lastPass.ran /\ isApplyingGrouping
    /\ groupingUi # {} /\ lastPass.uiBefore = groupingUi


\* C25: when a pass finds groups of which none resolves and no event from
\* outside follows, at most 3 retry passes are run.
C25_AtMostThreeRetryPasses == last.passes <= 3


\* the signature of the stored groups and the entries as they are now
SignatureNow == computeGroupingSignature(PresetName, orderedIdentifiers, ReadNow)

\* C26: a pass skips the rebuild only when the signature equals the one last
\* applied, the list element is the one last applied to, and headers exist in
\* the list; otherwise, as after the page removed the wrappers or replaced the
\* list element with groups and entries unchanged, the pass builds the
\* wrappers of every group that resolves.
C26_SkipOnlyWhenApplied ==
    [][ lastPass'.ran /\ isApplyingGrouping' /\ entryGroupingEnabled /\ listNode # NoNode
        /\ ResolvedNow # {} /\ PassStep
        => IF /\ groupingUi # {}
              /\ lastAppliedGroupingSignature = SignatureNow
              /\ lastAppliedGroupingListNode = listNode
           THEN ~lastPass'.rebuilt /\ groupingUi' = groupingUi
           ELSE lastPass'.rebuilt /\ groupingUi' = ResolvedNow ]_vars

\* the page has replaced the list element, and a pass that found no header
\* has built the wrappers in the new element
C26_Witness ==
    /\ lastPass.ran /\ lastPass.rebuilt /\ lastPass.uiBefore = {}
    /\ listNode = 2 /\ lastAppliedGroupingListNode = 2
    /\ groupingUi = ResolvedNow /\ groupingUi # {}


\* C27: every pass that sets isApplyingGrouping is followed by a later step
\* in which the flag is false again, whichever way the pass ends; the pass
\* itself never clears the flag, and the flag is never left set forever.
C27_GuardIsCleared ==
    /\ [][ entryGroupingEnabled /\ listNode # NoNode /\ (PassStep \/ ThrowingPass)
            => isApplyingGrouping' ]_vars
    /\ (isApplyingGrouping ~> ~isApplyingGrouping)

\* a pass has run on an empty list and the timer has cleared the guard
C27_Witness ==
    /\ lastPass.ran /\ orderedIdentifiers = <<>>
    /\ ~isApplyingGrouping /\ timers["guardReset"] = 0


\* a step whose only call is scheduleApplyGrouping(0): a timer set for it fires
ImmediateSchedule == TimerFires("reapply") \/ TimerFires("themeBurst")

\* C28: at any time at most one debounced apply timer is pending: the two
\* calls of scheduleApplyGrouping in initPromptEntryGrouping leave one timer,
\* whatever was pending before, and a call with delay 0 leaves none and
\* queues a pass as a microtask.
C28_OneDebouncedTimer ==
    /\ [](timers["debounced"] <= 1 /\ (timers["debounced"] = 1 => applyGroupingTimer))
    /\ [][ last'.op = "init" /\ InitPromptEntryGrouping
            => timers'["debounced"] = 1 /\ applyGroupingTimer' ]_vars
    /\ [][ entryGroupingEnabled /\ (timers["reapply"] > 0 \/ timers["themeBurst"] > 0)
            /\ ImmediateSchedule
            => /\ timers'["debounced"] = 0 /\ ~applyGroupingTimer'
               /\ applyGroupingQueued' /\ microtasks' # <<>> /\ Head(microtasks') = "pass" ]_vars

\* a timer set for scheduleApplyGrouping(0) has fired while a debounced timer
\* was pending: no debounced timer is left and a pass is queued
C28_Witness ==
    /\ last.op = "init"
    /\ timers["debounced"] = 0 /\ ~applyGroupingTimer
    /\ applyGroupingQueued /\ microtasks = <<"pass">>
    /\ ~lastPass.ran /\ lastAppliedGroupingSignature = NoSignature


\* C29: when the page has replaced the list element, the queued pass attaches
\* the list observer to the new element before it applies the grouping:
\* after the pass the observed node is the present list element, exactly one
\* list observer is connected, and the changes the pass itself made to the
\* list are among the records of that observer.
C29_ObserverFollowsList ==
    [][ listNode # NoNode /\ observedListNode # listNode /\ RunQueuedPass
        => /\ listObserver' /\ observedListNode' = listNode
           /\ registered'.listObserver = 1
           /\ (lastPass'.ran /\ lastPass'.rebuilt /\ groupingUi' # {}
                   => "own" \in records'.list) ]_vars

\* the pass queued after the page put a second list element has attached the
\* observer to it and built the wrappers under its eyes
C29_Witness ==
    /\ listNode = 2 /\ observedListNode = 2 /\ listObserver
    /\ registered.listObserver = 1 /\ registered.panelObserver = 1
    /\ lastPass.ran /\ lastPass.rebuilt /\ groupingUi # {}
    /\ "own" \in records.list
    /\ last.op = "init" /\ last.decision = "first"


\* C30: three consecutive counted clicks on the same entry index, each within
\* 1 second of the previous one, open the group-creation menu on the third
\* click, also when reconciliation passes run between the clicks.
C30_ThirdClickOpensMenu == last.op = "click" /\ last.passes = 3 => last.ok

\* an entry lies in the span of a group the read returns as resolved
InResolvedSpan(identifier) ==
    \E i \in 1..Len(ReadNow) :
        /\ AnchorsPresent(ReadNow[i])
        /\ identifier \in Between(ReadNow[i])

\* C31: there is one mark buffer; requesting the menu on an entry inside the
\* span of a resolved group leaves the buffer as it is and no menu is open
\* afterwards; and after the name dialog was confirmed with both marks set the
\* buffer is empty, whether the group was added, the span overlapped a group
\* or an anchor was not among the ordered identifiers.
C31_MarksBuffer ==
    [][ /\ \A id \in Identifiers :
              (last'.op = "showGroupingMenu" /\ ShowGroupingMenu(id) /\ InResolvedSpan(id))
                  => tempMarks' = tempMarks /\ ~menu'.open /\ ~last'.ok
        /\ (last'.op = "confirm" /\ dialog.open /\ ~dialog'.open
               /\ tempMarks.start # NoStr /\ tempMarks.end # NoStr)
              => /\ last'.decision \in {"add", "overlap", "unresolvable"}
                 /\ tempMarks' = NoMarks ]_vars

\* a menu request on a grouped entry was refused while a mark was pending
C31_Witness ==
    /\ last.op = "showGroupingMenu" /\ ~last.ok /\ InResolvedSpan(last.identifier)
    /\ tempMarks # NoMarks /\ ~menu.open

\* the state the claim gives for a list of entries
StateOfMembers(groupItems) ==
    LET withToggle == {i \in 1..Len(groupItems) : groupItems[i] # "none"}
        enabled == {i \in withToggle : groupItems[i] = "on"}
    IN  IF enabled = {} THEN "off"
        ELSE IF enabled = withToggle THEN "on"
        ELSE "mixed"

\* C32: the button's state is 'off' when no entry that has a toggle is
\* enabled, 'on' when every such entry is enabled, 'mixed' otherwise; a click
\* requests enable-all in the states 'off' and 'mixed' and disable-all in the
\* state 'on'; after every completed toggle the state is the one the entries
\* then give; and the button is enabled again after the toggle, whether it
\* succeeded or threw.
C32_ToggleAllState ==
    /\ \A groupItems \in GroupItemLists :
           addToggleAllButtonToGroupHeader(groupItems).state = StateOfMembers(groupItems)
    /\ [][ /\ last'.op = "toggleAllClick" /\ last' # last
                => last'.decision = (IF toggleAll.state \in {"off", "mixed"} THEN "enable"
                                     ELSE "disable")
           /\ last'.op = "toggleAllDone" /\ toggleAll.running
                => /\ ~toggleAll'.disabled
                   /\ last'.ok => toggleAll'.state = StateOfMembers(toggleAll'.groupItems) ]_vars

\* a toggle completed on entries of which some but not all are enabled
C32_Witness ==
    /\ last.op = "toggleAllDone" /\ last.ok
    /\ toggleAll.state = "mixed" /\ ~toggleAll.disabled

\* a sequence without its element at the 1-based position k
Without(seq, k) == [i \in 1..(Len(seq) - 1) |-> IF i < k THEN seq[i] ELSE seq[i + 1]]

\* the ids an array holds, with the number of times it holds each
SameIds(a, b) ==
    \A id \in Elements(a) \cup Elements(b) :
        Cardinality(PositionsOf(a, id)) = Cardinality(PositionsOf(b, id))

\* the stored world-book is as the read that renders the headers leaves it
Rendered == getGroupOrder(worldbook) = worldbook

\* C33: with the group headers rendered from the stored order, dropping group
\* A on the header of a different group B stores a permutation of the same
\* ids in which A stands at the index B had before and the other ids keep
\* their relative order; dropping a group on itself, or a group whose id the
\* order does not hold, changes nothing.
C33_DropMovesGroup ==
    [][ \A a \in StoredGroupIds, b \in StoredGroupIds :
          (last'.op = "dropGroup" /\ last'.groupIndex = a /\ Rendered /\ DropGroup(a, b))
          => LET before == worldbook.groupOrder
                 after == worldbook'.groupOrder
             IN  IF a # b /\ PositionsOf(before, a) # {} /\ PositionsOf(before, b) # {}
                 THEN /\ SameIds(before, after)
                      /\ after[FirstPosition(before, b)] = a
                      /\ Without(after, FirstPosition(before, b))
                            = Without(before, FirstPosition(before, a))
                      /\ worldbook'.groups = worldbook.groups
                 ELSE a = b \/ PositionsOf(before, a) = {} => worldbook' = worldbook ]_vars

\* a group was dropped on a group that stood behind it
C33_Witness ==
    /\ last.op = "dropGroup" /\ last.ok /\ last.groupIndex = 1
    /\ Len(worldbook.groupOrder) >= 2
    /\ worldbook.groupOrder[Len(worldbook.groupOrder)] = 1

\* the list as it is has not been read by a pass
Unreconciled == Initialized /\ listNode # NoNode /\ ~lastPass.ran

\* C34: every change of the list by the page (an entry added, removed or
\* re-identified, the wrappers removed) is eventually followed by a pass
\* that reads the list as that change left it, also when the observer's
\* callback for the change runs while isApplyingGrouping is still set.
C34_MutationIsReconciled == Unreconciled ~> lastPass.ran

\* the names and anchors of the groups a read returns
Shown(groupings) ==
    [i \in 1..Len(groupings) |->
        <<groupings[i].name, groupings[i].startIdentifier, groupings[i].endIdentifier>>]

\* the group the header of groupIndex shows is stored
StillStored(groupIndex) ==
    \E k \in 1..Len(ReadNow) : Shown(ReadNow)[k][2] = HeaderGrouping(groupIndex)[2]

\* C35: the delete and the rename button of a header act on the group the
\* header shows, also when another group was removed or added since the
\* header was built: the delete removes that group's record and no other, the
\* rename changes that record's name and nothing else.
C35_HeaderActsOnItsGroup ==
    [][ \A i \in 0..MaxGroups :
          /\ (last'.op = "headerDelete" /\ last'.groupIndex = i /\ HeaderDeleteButton(i)
                 /\ StillStored(i))
               => Shown(ReadNext)
                    = SelectSeq(Shown(ReadNow),
                                LAMBDA g : g[2] # HeaderGrouping(i)[2])
          /\ (last'.op = "headerEdit" /\ last'.groupIndex = i /\ HeaderEditButton(i, "R")
                 /\ StillStored(i))
               => Shown(ReadNext)
                    = [k \in 1..Len(ReadNow) |->
                          IF Shown(ReadNow)[k][2] = HeaderGrouping(i)[2]
                          THEN <<"R", Shown(ReadNow)[k][2], Shown(ReadNow)[k][3]>>
                          ELSE Shown(ReadNow)[k]] ]_vars

----------------------------------------------------------------------------
\* the number of places an entry UID takes in the entries arrays of the
\* groups of the world-book
Places(uid) ==
    Cardinality({pos \in (1..Len(worldbook.groups)) \X (1..MaxEntries) :
                    /\ pos[2] <= Len(worldbook.groups[pos[1]].entries)
                    /\ worldbook.groups[pos[1]].entries[pos[2]] = uid})

\* C37: in the world-info store every entry UID appears in at most one group
\* of the world-book and at most once within that group, after any sequence
\* of createGroup, deleteGroup, addEntryToGroup, removeEntryFromGroup,
\* setGroupEntries and cleanOrphanedReferences.
C37_EntryInAtMostOneGroup == \A uid \in EntryUids : Places(uid) <= 1

\* the entries arrays of the groups of a world-book, by group id
EntriesById(book) ==
    {<<book.groups[i].id, book.groups[i].entries>> : i \in 1..Len(book.groups)}

\* C40: addEntryToGroup called with a groupId that is no group of the
\* world-book returns false and leaves the entries of every group as they
\* were: the entry stays in the group it was in.
C40_UnknownGroupChangesNothing ==
    [][ (last'.op = "addEntryToGroup" /\ ~HasGroup(worldbook.groups, last'.groupIndex))
            => (~last'.ok /\ EntriesById(worldbook') = EntriesById(worldbook)) ]_vars

----------------------------------------------------------------------------
\* C39: when addPresetGrouping, updatePresetGrouping or removePresetGrouping
\* returns false because savePreset rejects, extensions.entryGrouping of the
\* preset object and of the live settings are the same as before the call.
C39_RejectedSaveChangesNothing ==
    [][ (last'.op \in {"add", "update", "remove"} /\ last'.saves = 1 /\ ~last'.ok)
            => (/\ RawGroupings(presetObj') = RawGroupings(presetObj)
                /\ RawGroupings(settings') = RawGroupings(settings)) ]_vars

----------------------------------------------------------------------------
\* C36: whenever refreshGroupedView prunes orphaned references,
\* currentWorldData is the data of the world-book that currentWorldName
\* names, under every interleaving of the selection handler, onWorldEditorOpen,
\* the two event handlers, the loads and the refresh timers.
C36_PrunesAgainstOwnData ==
    [][ (~editor.isRefreshing /\ editor'.isRefreshing)
            => editor'.currentWorldData.of = editor'.currentWorldName ]_vars

\* the view shows the stored grouping of the current world-book
Shows ==
    /\ editor.currentWorldName # NoWorld
    /\ editor.view = Containers(getGroupOrder(editor.worldbooks[editor.currentWorldName]),
                                HostEntries[editor.selected])

\* a group was changed through the context menu, which calls
\* refreshGroupedView next, and the user and the host can still act
MenuChangedGroups == last.op \in {"menuAdd", "menuRemove"} /\ editor.events < MaxEditorEvents

\* C38: isRefreshing always returns to false after a refresh, and after a
\* group mutation that is followed by a refreshGroupedView call the view
\* eventually shows the stored grouping, also when the call came while
\* isRefreshing was still set.
C38_ViewFollowsStore ==
    /\ editor.isRefreshing ~> ~editor.isRefreshing
    /\ MenuChangedGroups ~> Shows

====
